---- MODULE Spec2Model ----
(***************************************************************************)
(* Model of the Telegram guide bot of src/bot.py: the per-user             *)
(* conversation memory (user_histories), the free-text message handler     *)
(* (handle_message) with its weather / knowledge / completion branches,    *)
(* the repetition guard, and the knowledge commands.                       *)
(*                                                                         *)
(* Texts.  A user utterance is a sequence of words (the text split on      *)
(* white space); Russian words are written in Latin transliteration.  A    *)
(* completion text is a sequence of characters.  An optional value         *)
(* (Python None) is a sequence of length 0 or 1.                           *)
(*                                                                         *)
(* Scheduling.  The application is built with the default sequential       *)
(* update processing (src/bot.py:1358-1371), and handle_message has no     *)
(* await between its first and last access to user_histories               *)
(* (src/bot.py:915-939: the completion call is synchronous), so one        *)
(* handled update is one atomic step of the model.                         *)
(*                                                                         *)
(* The dialogue states of context.user_data (src/bot.py:666-762) are read  *)
(* and popped by handle_message but never set anywhere in the program, so  *)
(* those two branches are never taken and user_data stays empty.           *)
(***************************************************************************)
EXTENDS Integers, Sequences, FiniteSets, TLC

VARIABLES
  ISTANBUL_DATA,        \* the process-wide knowledge base (src/bot.py:16)
  OPENWEATHER_API_KEY,  \* TRUE iff the weather key is configured (src/bot.py:125)
  user_histories,       \* user id -> window of turns, entries created lazily
  sent,                 \* messages sent to the chat by the last handled update
  llm_calls,            \* message lists passed to the completion provider by it
  wx_ops,               \* weather operations invoked by it
  wx_calls,             \* requests that reached the weather provider in it
  last,                 \* the last handled update: user, text, branch, completion
  appended,             \* user id -> turns appended since the last clear
  prev,                 \* user id -> completion of the previous open-ended turn
  last_sent,            \* user id -> last answer text sent since the last clear
  dialog,               \* user id -> phase of the conversation since its last clear
  ops,                  \* number of handled updates
  call,                 \* the last call of a function under test: op, args, result
  in_flight             \* task -> position of an update that is being handled

vars == <<ISTANBUL_DATA, OPENWEATHER_API_KEY, user_histories, sent, llm_calls,
          wx_ops, wx_calls, last, appended, prev, last_sent, dialog, ops, call,
          in_flight>>

----------------------------------------------------------------------------
(* Bounds *)

MaxOps == 2
MaxMemOps == 11

Users == {"u1", "u2"}

\* the updates the event loop can be handling at the same time
Tasks == {"t1", "t2"}

\* a task that has not received its update yet
Idle == [pc |-> "idle", user |-> "none", text |-> <<>>, pending |-> <<>>,
         delivered |-> <<>>]

\* no function under test has been called yet
NoCall == [op |-> "none", args |-> <<>>, result |-> <<>>]

----------------------------------------------------------------------------
(* Generic sequence helpers *)

Range(s) == {s[i] : i \in 1..Len(s)}

LastN(s, n) == IF Len(s) <= n THEN s ELSE SubSeq(s, Len(s) - n + 1, Len(s))

FirstN(s, n) == IF Len(s) <= n THEN s ELSE SubSeq(s, 1, n)

RECURSIVE Flatten(_)
Flatten(ss) == IF ss = <<>> THEN <<>> ELSE Head(ss) \o Flatten(Tail(ss))

Contains(hay, needle) ==
  \E i \in 0..(Len(hay) - Len(needle)) :
     \A k \in 1..Len(needle) : hay[i + k] = needle[k]

----------------------------------------------------------------------------
(* Character-level text functions *)

IsSpace(c) == c \in {" ", "\n"}

RECURSIVE LStrip(_)
LStrip(s) == IF s # <<>> /\ IsSpace(Head(s)) THEN LStrip(Tail(s)) ELSE s

RECURSIVE RStrip(_)
RStrip(s) ==
  IF s # <<>> /\ IsSpace(s[Len(s)]) THEN RStrip(SubSeq(s, 1, Len(s) - 1)) ELSE s

\* str.strip()
Strip(s) == RStrip(LStrip(s))

\* str.split('\n')
RECURSIVE SplitLines(_, _)
SplitLines(s, cur) ==
  IF s = <<>> THEN <<cur>>
  ELSE IF Head(s) = "\n" THEN <<cur>> \o SplitLines(Tail(s), <<>>)
  ELSE SplitLines(Tail(s), Append(cur, Head(s)))

\* '\n'.join(lines)
RECURSIVE JoinLines(_)
JoinLines(lines) ==
  IF lines = <<>> THEN <<>>
  ELSE IF Len(lines) = 1 THEN lines[1]
  ELSE lines[1] \o <<"\n">> \o JoinLines(Tail(lines))

\* re.sub(r'\n{3,}', '\n\n', s): a run of three or more newlines becomes two
RECURSIVE CollapseNewlines(_, _)
CollapseNewlines(s, run) ==
  IF s = <<>> THEN <<>>
  ELSE IF Head(s) = "\n"
       THEN (IF run >= 2 THEN <<>> ELSE <<"\n">>) \o CollapseNewlines(Tail(s), run + 1)
       ELSE <<Head(s)>> \o CollapseNewlines(Tail(s), 0)

\* str.count('**'): non-overlapping occurrences, scanning from the left
RECURSIVE CountStars(_)
CountStars(s) ==
  IF Len(s) < 2 THEN 0
  ELSE IF s[1] = "*" /\ s[2] = "*" THEN 1 + CountStars(Tail(Tail(s)))
  ELSE CountStars(Tail(s))

format_markdown(text) ==
  IF text = <<>> THEN <<>>
  ELSE LET t1 == CollapseNewlines(Strip(text), 0)
           t2 == IF CountStars(t1) % 2 # 0 THEN t1 \o <<"*", "*">> ELSE t1
       IN  Strip(t2)

TelegramLimit == 3500

RECURSIVE SplitLoop(_, _, _, _, _)
SplitLoop(lines, parts, current_lines, current_len, limit) ==
  IF lines = <<>>
  THEN IF current_lines # <<>>
       THEN Append(parts, Strip(JoinLines(current_lines)))
       ELSE parts
  ELSE LET line == Head(lines)
           additional == Len(line) + 1
       IN  IF current_len + additional > limit /\ current_lines # <<>>
           THEN SplitLoop(Tail(lines),
                          Append(parts, Strip(JoinLines(current_lines))),
                          <<line>>, Len(line) + 1, limit)
           ELSE SplitLoop(Tail(lines), parts, Append(current_lines, line),
                          current_len + additional, limit)

\* the separators are not counted and a chunk may run two characters over
split_into_telegram_chunks_Loose(text, limit) ==
  SplitLoop(SplitLines(text, <<>>), <<>>, <<>>, 0, limit + 2)

\* split_into_telegram_chunks: the text is cut between lines and every chunk
\* is stripped
split_into_telegram_chunks(text, limit) ==
  SplitLoop(SplitLines(text, <<>>), <<>>, <<>>, 0, limit)

\* Characters of a district name.  "Idot" is the capital I with a dot above
\* (U+0130) of Turkish names; its lower case is two characters, "i" and the
\* combining dot above "dot" (U+0307), which is not a cased character.
IsCased(c) == c \in {"a", "A", "i", "I", "Idot"}

\* the lower-case mapping of one character (str.lower, and str.title inside a word)
ToLower(c) ==
  CASE c = "A" -> <<"a">>
    [] c = "I" -> <<"i">>
    [] c = "Idot" -> <<"i", "dot">>
    [] OTHER -> <<c>>

\* the title-case mapping of one character (str.title at the start of a word)
ToTitle(c) ==
  CASE c = "a" -> <<"A">>
    [] c = "i" -> <<"I">>
    [] OTHER -> <<c>>

\* str.title(): a character that follows a cased character is lowered, any
\* other character is title-cased
RECURSIVE TitleStr(_, _)
TitleStr(s, previous_is_cased) ==
  IF s = <<>> THEN <<>>
  ELSE (IF previous_is_cased THEN ToLower(Head(s)) ELSE ToTitle(Head(s)))
         \o TitleStr(Tail(s), IsCased(Head(s)))

\* " ".join(s.split()): the words of s with one space between them; before is
\* "start" (no word yet), "word" (inside a word) or "gap" (white space after a word)
RECURSIVE JoinSplit(_, _)
JoinSplit(s, before) ==
  IF s = <<>> THEN <<>>
  ELSE IF IsSpace(Head(s))
       THEN JoinSplit(Tail(s), IF before = "start" THEN "start" ELSE "gap")
       ELSE (IF before = "gap" THEN <<" ">> ELSE <<>>)
              \o <<Head(s)>> \o JoinSplit(Tail(s), "word")

\* normalize_district on the characters of its argument
normalize_district_text(district) ==
  IF district = <<>> THEN <<>>
  ELSE TitleStr(JoinSplit(Strip(district), "start"), FALSE)

----------------------------------------------------------------------------
(* Word-level text functions.  Transliterated vocabulary:                  *)
(*   privet = "privet" (hello), pogoda = weather, prognoz = forecast,      *)
(*   temperatura = temperature, v / po / dlya = in / for,                  *)
(*   stambul, marshrut, turciya = domain keywords,                         *)
(*   na tri dnya / na 3 dnya = for three days,                             *)
(*   galata / karakoy = district names, stambule / moskve = city names.    *)

\* str.lower() on the vocabulary
Lower(w) ==
  CASE w = "Galata" -> "galata"
    [] w = "GALATA" -> "galata"
    [] w = "Karakoy" -> "karakoy"
    [] w = "KARAKOY" -> "karakoy"
    [] w = "Moskve" -> "moskve"
    [] w = "Istanbul" -> "istanbul"
    [] w = "Tri" -> "tri"
    [] OTHER -> w

\* str.title() on one word of the vocabulary
Title(w) ==
  CASE Lower(w) = "galata" -> "Galata"
    [] Lower(w) = "karakoy" -> "Karakoy"
    [] Lower(w) = "moskve" -> "Moskve"
    [] Lower(w) = "istanbul" -> "Istanbul"
    [] Lower(w) = "stambule" -> "Stambule"
    [] OTHER -> w

LowerAll(ws) == [i \in 1..Len(ws) |-> Lower(ws[i])]

\* Python string order on the district keys used here
WordRank(w) ==
  CASE w = "Galata" -> 1
    [] w = "Karakoy" -> 2
    [] OTHER -> 3

KeyLess(a, b) ==
  \/ /\ Len(a) < Len(b)
     /\ \A i \in 1..Len(a) : a[i] = b[i]
  \/ \E i \in 1..Len(a) :
       /\ i <= Len(b)
       /\ \A k \in 1..(i - 1) : a[k] = b[k]
       /\ WordRank(a[i]) < WordRank(b[i])

\* sorted(list(S))
RECURSIVE Sorted(_)
Sorted(S) ==
  IF S = {} THEN <<>>
  ELSE LET m == CHOOSE x \in S : \A y \in S \ {x} : KeyLess(x, y)
       IN  <<m>> \o Sorted(S \ {m})

normalize_district(district) ==
  IF district = <<>> THEN <<>>
  ELSE [i \in 1..Len(district) |-> Title(district[i])]

----------------------------------------------------------------------------
(* Intent classification of handle_message, at word level *)

\* the trigger group of the weather pattern: temperatura | pogoda | prognoz
IsTrigger(w) == Lower(w) \in {"temperatura", "pogoda", "prognoz"}

\* the preposition group v | po | dlya.  The pattern does not anchor it at a
\* word start, so any word ending in one of them counts; none of the other
\* words of the vocabulary does.
EndsWithPrep(w) == Lower(w) \in {"v", "po", "dlya"}

\* a word made of letters and hyphens only, which the city group can capture
IsCityWord(w) ==
  Lower(w) \in {"privet", "pogoda", "prognoz", "temperatura", "v", "po", "dlya",
                "stambul", "stambule", "istanbul", "marshrut", "turciya",
                "galata", "karakoy", "moskve", "na", "tri", "dnya"}

\* re.search of the weather pattern: the captured city word, or nothing.
\* The lazy city group stops at the first white space, so it is one word.
WeatherMatch(text) ==
  LET trig == {i \in 1..Len(text) : IsTrigger(text[i])}
  IN  IF trig = {} THEN <<>>
      ELSE LET i0 == CHOOSE i \in trig : \A k \in trig : i <= k
               cand == {j \in (i0 + 1)..(Len(text) - 1) :
                          EndsWithPrep(text[j]) /\ IsCityWord(text[j + 1])}
           IN  IF cand = {} THEN <<>>
               ELSE LET j0 == CHOOSE j \in cand : \A k \in cand : j <= k
                    IN  <<text[j0 + 1]>>

\* the trigger without its generic "prognoz" alternative
ForecastTrigger_PhraseOnly(text) ==
  \/ Contains(LowerAll(text), <<"na", "3", "dnya">>)
  \/ Contains(LowerAll(text), <<"na", "tri", "dnya">>)

\* re.search(r'(na\s*3\s*dnya|na\s*tri\s*dnya|prognoz)', text)
ForecastTrigger(text) ==
  \/ \E i \in 1..Len(text) : Lower(text[i]) = "prognoz"
  \/ Contains(LowerAll(text), <<"na", "3", "dnya">>)
  \/ Contains(LowerAll(text), <<"na", "tri", "dnya">>)

\* special_cases, then (pymorphy2 not installed, src/bot.py:37-39) str.title()
normalize_city(city) ==
  CASE Lower(city) \in {"stambule", "stambul", "istanbul"} -> "Istanbul"
    [] OTHER -> Title(city)

\* any(kw in text.lower() for kw in istanbul_keywords)
IsIstanbulRelated(text) ==
  \/ \E i \in 1..Len(text) :
        Lower(text[i]) \in {"stambul", "stambule", "istanbul", "marshrut", "turciya"}
  \/ Contains(LowerAll(text), <<"gid", "po", "stambulu">>)
  \/ Contains(LowerAll(text), <<"chto", "posmotret">>)

----------------------------------------------------------------------------
(* Knowledge base *)

EmptyData == [sights |-> <<>>, restaurants |-> <<>>, routes |-> <<>>]

GuideData ==
  [sights |-> << [name |-> <<"Bashnya">>, district |-> <<"Galata">>] >>,
   restaurants |-> << [name |-> <<"Lokanta">>, district |-> <<"Karakoy">>] >>,
   routes |-> << [title |-> <<"Klassika">>, steps |-> <<"utro">>] >>]

\* the states load_istanbul_data leaves behind: {} or a validated base
KnowledgeBases == {EmptyData, GuideData}

get_districts_from_data(data, data_type) ==
  LET recs == IF data_type = "sights" THEN data.sights
              ELSE IF data_type = "restaurants" THEN data.restaurants
              ELSE <<>>
  IN  Sorted({recs[i].district : i \in {k \in 1..Len(recs) : recs[k].district # <<>>}})

\* the search stops at the first record of the district
FindByDistrict_First(recs, district) ==
  FirstN(SelectSeq(recs, LAMBDA r :
           LowerAll(normalize_district(r.district)) = LowerAll(district)), 1)

\* the list comprehension used by every district lookup
FindByDistrict(recs, district) ==
  SelectSeq(recs, LAMBDA r :
     LowerAll(normalize_district(r.district)) = LowerAll(district))

Names(recs) == [i \in 1..Len(recs) |-> recs[i].name]

----------------------------------------------------------------------------
(* Messages and turns *)

Msg(tmpl, text, list) == [tmpl |-> tmpl, text |-> text, list |-> list]

UserTurn(text) == [role |-> "user", content |-> text]
AssistantTurn(text) == [role |-> "assistant", content |-> text]
SystemTurn(prompt) == [role |-> "system", content |-> prompt]

HistoryMaxLen == 10
ShortHistoryLen == 4

\* user_histories[user_id]: the defaultdict creates an empty window on first use
HistoryOf(hs, user_id) == IF user_id \in DOMAIN hs THEN hs[user_id] ELSE <<>>

SetHistory(hs, user_id, h) ==
  [v \in (DOMAIN hs) \cup {user_id} |-> IF v = user_id THEN h ELSE hs[v]]

\* a capped list that refuses the new turn instead of evicting the oldest
AppendTurn_KeepOldest(h, turn) ==
  IF Len(h) = HistoryMaxLen THEN h ELSE Append(h, turn)

\* deque(maxlen=10).append
AppendTurn(h, turn) ==
  IF Len(h) = HistoryMaxLen THEN Append(Tail(h), turn) ELSE Append(h, turn)

\* the window is looked up but clear() is not called
ClearHistory_Forgotten(hs, user_id) == SetHistory(hs, user_id, HistoryOf(hs, user_id))

\* user_histories.clear() followed by the lookup: every user's window is lost
ClearHistory_Everyone(hs, user_id) ==
  [v \in (DOMAIN hs) \cup {user_id} |-> <<>>]

\* user_histories[user_id].clear()
ClearHistory(hs, user_id) == SetHistory(hs, user_id, <<>>)

\* list(user_histories[user_id])[:4]: the oldest turns instead of the newest
ShortHistory_Oldest(h) == FirstN(h, ShortHistoryLen)

\* list(user_histories[user_id])[-4:]
ShortHistory(h) == LastN(h, ShortHistoryLen)

\* next((m["content"].strip() for m in reversed(h) if m["role"] == "assistant"), None)
LastAssistant(h) ==
  LET idx == {i \in 1..Len(h) : h[i].role = "assistant"}
  IN  IF idx = {} THEN <<>>
      ELSE LET i0 == CHOOSE i \in idx : \A k \in idx : k <= i
           IN  << Strip(h[i0].content) >>

----------------------------------------------------------------------------
(* External collaborators: their outcomes are inputs of a handled update *)

\* the completion provider: a completion text, an empty choice list, or an
\* exception (time-out, HTTP error)
Completions == { <<>>, <<"a">>, <<"a", " ">> }
MemCompletions == { <<"a">>, <<"a", " ">> }

LlmOutcome(kind, content) == [kind |-> kind, content |-> content]
LlmOutcomes(cs) ==
  {LlmOutcome("ok", c) : c \in cs} \cup
  {LlmOutcome("no_choices", <<>>), LlmOutcome("error", <<>>)}

\* the weather provider: a usable body, or anything else (status, time-out)
WxOutcomes == {"ok", "fail"}

----------------------------------------------------------------------------
(* Fixed replies *)

BtnHelp == <<"[Pomosch]">>
BtnAbout == <<"[O bote]">>
BtnNewDialog == <<"[Novyj dialog]">>
BtnWeather == <<"[Pogoda]">>
BtnRoutes == <<"[Marshruty]">>
BtnSights == <<"[Dostoprimechatelnosti]">>
BtnRestaurants == <<"[Restorany]">>

ErrorReply == Msg("processing_error", <<>>, <<>>)

\* districts_mentioned of handle_message
DistrictsMentioned(data, text) ==
  SelectSeq(get_districts_from_data(data, "sights")
              \o get_districts_from_data(data, "restaurants"),
            LAMBDA d : Contains(LowerAll(text), LowerAll(d)))

\* the district scan tested before the weather pattern
Branch_KnowledgeFirst(data, text) ==
  CASE text = BtnHelp -> "help"
    [] text = BtnAbout -> "about"
    [] text = BtnNewDialog -> "new_dialog"
    [] text = BtnWeather -> "weather_hint"
    [] text = BtnRoutes -> "routes_menu"
    [] text = BtnSights -> "sights_menu"
    [] text = BtnRestaurants -> "restaurants_menu"
    [] OTHER -> IF IsIstanbulRelated(text) /\ DistrictsMentioned(data, text) # <<>>
                THEN "completion"
                ELSE IF WeatherMatch(text) # <<>> THEN "weather" ELSE "completion"

\* the branch of handle_message an utterance takes (src/bot.py:764-913)
Branch(data, text) ==
  CASE text = BtnHelp -> "help"
    [] text = BtnAbout -> "about"
    [] text = BtnNewDialog -> "new_dialog"
    [] text = BtnWeather -> "weather_hint"
    [] text = BtnRoutes -> "routes_menu"
    [] text = BtnSights -> "sights_menu"
    [] text = BtnRestaurants -> "restaurants_menu"
    [] OTHER -> IF WeatherMatch(text) # <<>> THEN "weather" ELSE "completion"

\* relevant_sights / relevant_restaurants: extend() once per mentioned district
RECURSIVE Relevant(_, _)
Relevant(recs, districts) ==
  IF districts = <<>> THEN <<>>
  ELSE FindByDistrict(recs, Head(districts)) \o Relevant(recs, Tail(districts))

\* relevant_data left at None
RelevantData_Dropped(data, text) == <<>>

\* relevant_data of handle_message: nothing, or the selected records
RelevantData(data, text) ==
  IF ~IsIstanbulRelated(text) THEN <<>>
  ELSE LET districts_mentioned == DistrictsMentioned(data, text)
           relevant_sights == Relevant(data.sights, districts_mentioned)
           relevant_restaurants == Relevant(data.restaurants, districts_mentioned)
       IN  IF districts_mentioned # <<>>
              /\ (relevant_sights # <<>> \/ relevant_restaurants # <<>>)
           THEN << [sights |-> FirstN(relevant_sights, 5),
                    restaurants |-> FirstN(relevant_restaurants, 5),
                    districts |-> districts_mentioned] >>
           ELSE <<>>

\* PROMPT of handle_message
SystemPrompt(data, text) ==
  IF IsIstanbulRelated(text)
  THEN LET rd == RelevantData(data, text)
       IN  IF rd # <<>>
           THEN <<"PROMPT_FROM_BASE">> \o Flatten(rd[1].districts) \o <<"|">>
                  \o Flatten(Names(rd[1].sights)) \o <<"|">>
                  \o Flatten(Names(rd[1].restaurants))
           ELSE <<"PROMPT_NO_DATA">>
  ELSE <<"DEFAULT_PROMPT_TEMPLATE">>

\* which kind of completion request an utterance is
Intent(data, text) ==
  IF ~IsIstanbulRelated(text) THEN "open_ended"
  ELSE IF DistrictsMentioned(data, text) # <<>> THEN "knowledge_lookup"
  ELSE "istanbul_no_district"

----------------------------------------------------------------------------
(* The weather branch of handle_message *)

\* get_weather / get_weather_forecast: without a key no request is made
WeatherFetch(key, wx) == IF key /\ wx = "ok" THEN <<"report">> ELSE <<>>

\* a failed request is sent to the weather provider a second time
WeatherBranch_Retry(key, text, wx) ==
  LET raw_city == WeatherMatch(text)[1]
      city == normalize_city(raw_city)
      forecast == ForecastTrigger(text)
      op == IF forecast THEN "get_weather_forecast" ELSE "get_weather"
      res == WeatherFetch(key, wx)
  IN  [ops |-> << [op |-> op, city |-> city, days |-> IF forecast THEN 3 ELSE 0] >>,
       calls |-> IF key
                 THEN IF wx = "ok"
                      THEN << [op |-> op, city |-> city, ok |-> TRUE] >>
                      ELSE << [op |-> op, city |-> city, ok |-> FALSE],
                              [op |-> op, city |-> city, ok |-> FALSE] >>
                 ELSE <<>>,
       sent |-> IF forecast
                THEN IF res # <<>> THEN << Msg("forecast", <<city>>, <<>>) >>
                     ELSE << Msg("forecast_failed", <<>>, <<>>) >>
                ELSE IF res # <<>> THEN << Msg("weather", <<city>>, <<>>) >>
                     ELSE << Msg("weather_failed", <<>>, <<>>) >>]

\* the weather branch: one operation, at most one request, one reply
WeatherBranch(key, text, wx) ==
  LET raw_city == WeatherMatch(text)[1]
      city == normalize_city(raw_city)
      forecast == ForecastTrigger(text)
      op == IF forecast THEN "get_weather_forecast" ELSE "get_weather"
      res == WeatherFetch(key, wx)
  IN  [ops |-> << [op |-> op, city |-> city, days |-> IF forecast THEN 3 ELSE 0] >>,
       calls |-> IF key THEN << [op |-> op, city |-> city, ok |-> wx = "ok"] >>
                 ELSE <<>>,
       sent |-> IF forecast
                THEN IF res # <<>> THEN << Msg("forecast", <<city>>, <<>>) >>
                     ELSE << Msg("forecast_failed", <<>>, <<>>) >>
                ELSE IF res # <<>> THEN << Msg("weather", <<city>>, <<>>) >>
                     ELSE << Msg("weather_failed", <<>>, <<>>) >>]

----------------------------------------------------------------------------
(* The completion branch of handle_message *)

\* the reply_text loop over the chunks.  Whether the chat service accepts a
\* message with an empty text is its own choice (tg_blank_ok); a refusal
\* raises inside the try block and is answered with the error reply.
RECURSIVE SendParts(_, _)
SendParts(parts, tg_blank_ok) ==
  IF parts = <<>> THEN <<>>
  ELSE IF Head(parts) = <<>> /\ ~tg_blank_ok THEN << ErrorReply >>
  ELSE << Msg("answer", Head(parts), <<>>) >> \o SendParts(Tail(parts), tg_blank_ok)

\* the guard without its comparison: any previous answer suppresses
IsDuplicate_NoCompare(h, answer) ==
  LET last_assistant_msg == LastAssistant(h)
  IN  /\ last_assistant_msg # <<>>
      /\ last_assistant_msg[1] # <<>>

\* the repetition guard (src/bot.py:934-937)
IsDuplicate(h, answer) ==
  LET last_assistant_msg == LastAssistant(h)
  IN  /\ last_assistant_msg # <<>>
      /\ last_assistant_msg[1] # <<>>
      /\ answer = last_assistant_msg[1]

\* a handler that only logs a failed completion call
CompletionBranch_SilentFailure(h, prompt, text, llm, tg_blank_ok) ==
  LET h1 == AppendTurn(h, UserTurn(text))
      messages == << SystemTurn(prompt) >> \o ShortHistory(h1)
  IN  IF llm.kind # "ok"
      THEN [hist |-> h1, messages |-> messages, outcome |-> "failed",
            answer |-> <<>>, turns |-> << UserTurn(text) >>,
            sent |-> <<>>]
      ELSE LET answer == Strip(llm.content)
           IN  IF IsDuplicate(h1, answer)
               THEN [hist |-> h1, messages |-> messages, outcome |-> "suppressed",
                     answer |-> << answer >>, turns |-> << UserTurn(text) >>,
                     sent |-> <<>>]
               ELSE LET h2 == AppendTurn(h1, AssistantTurn(answer))
                        parts == split_into_telegram_chunks(format_markdown(answer),
                                                            TelegramLimit)
                        out == SendParts(parts, tg_blank_ok)
                    IN  [hist |-> h2, messages |-> messages,
                         outcome |-> IF ErrorReply \in Range(out)
                                     THEN "send_failed" ELSE "answered",
                         answer |-> << answer >>,
                         turns |-> << UserTurn(text), AssistantTurn(answer) >>,
                         sent |-> out]

\* a handler that pops the user turn when no answer was recorded
CompletionBranch_RollsBack(h, prompt, text, llm, tg_blank_ok) ==
  LET h1 == AppendTurn(h, UserTurn(text))
      messages == << SystemTurn(prompt) >> \o ShortHistory(h1)
  IN  IF llm.kind # "ok"
      THEN [hist |-> h, messages |-> messages, outcome |-> "failed",
            answer |-> <<>>, turns |-> << UserTurn(text) >>,
            sent |-> << ErrorReply >>]
      ELSE LET answer == Strip(llm.content)
           IN  IF IsDuplicate(h1, answer)
               THEN [hist |-> h, messages |-> messages, outcome |-> "suppressed",
                     answer |-> << answer >>, turns |-> << UserTurn(text) >>,
                     sent |-> <<>>]
               ELSE LET h2 == AppendTurn(h1, AssistantTurn(answer))
                        parts == split_into_telegram_chunks(format_markdown(answer),
                                                            TelegramLimit)
                        out == SendParts(parts, tg_blank_ok)
                    IN  [hist |-> h2, messages |-> messages,
                         outcome |-> IF ErrorReply \in Range(out)
                                     THEN "send_failed" ELSE "answered",
                         answer |-> << answer >>,
                         turns |-> << UserTurn(text), AssistantTurn(answer) >>,
                         sent |-> out]

\* the completion branch of handle_message (src/bot.py:915-952)
CompletionBranch(h, prompt, text, llm, tg_blank_ok) ==
  LET h1 == AppendTurn(h, UserTurn(text))
      messages == << SystemTurn(prompt) >> \o ShortHistory(h1)
  IN  IF llm.kind # "ok"
      THEN [hist |-> h1, messages |-> messages, outcome |-> "failed",
            answer |-> <<>>, turns |-> << UserTurn(text) >>,
            sent |-> << ErrorReply >>]
      ELSE LET answer == Strip(llm.content)
           IN  IF IsDuplicate(h1, answer)
               THEN [hist |-> h1, messages |-> messages, outcome |-> "suppressed",
                     answer |-> << answer >>, turns |-> << UserTurn(text) >>,
                     sent |-> <<>>]
               ELSE LET h2 == AppendTurn(h1, AssistantTurn(answer))
                        parts == split_into_telegram_chunks(format_markdown(answer),
                                                            TelegramLimit)
                        out == SendParts(parts, tg_blank_ok)
                    IN  [hist |-> h2, messages |-> messages,
                         outcome |-> IF ErrorReply \in Range(out)
                                     THEN "send_failed" ELSE "answered",
                         answer |-> << answer >>,
                         turns |-> << UserTurn(text), AssistantTurn(answer) >>,
                         sent |-> out]

----------------------------------------------------------------------------
(* Handlers *)

Update(handler, user_id, text, branch, intent, outcome, completion) ==
  [handler |-> handler, user |-> user_id, text |-> text, branch |-> branch,
   intent |-> intent, outcome |-> outcome, completion |-> completion]

NoPrev == [text |-> <<>>, kept |-> FALSE]

\* replies of the menu buttons of handle_message (src/bot.py:764-821)
MenuReply(data, branch) ==
  CASE branch = "sights_menu" ->
         Msg("choose_sights_district", <<>>, get_districts_from_data(data, "sights"))
    [] branch = "restaurants_menu" ->
         Msg("choose_restaurants_district", <<>>,
             get_districts_from_data(data, "restaurants"))
    [] OTHER -> Msg(branch, <<>>, <<>>)

handle_message(user_id, text, wx, llm, tg_blank_ok) ==
  LET branch == Branch(ISTANBUL_DATA, text)
      h == HistoryOf(user_histories, user_id)
      w == WeatherBranch(OPENWEATHER_API_KEY, text, wx)
      c == CompletionBranch(h, SystemPrompt(ISTANBUL_DATA, text), text, llm,
                            tg_blank_ok)
  IN
  /\ ops' = ops + 1
  /\ UNCHANGED <<ISTANBUL_DATA, OPENWEATHER_API_KEY, call, in_flight>>
  /\ CASE branch = "new_dialog" ->
            /\ user_histories' = ClearHistory(user_histories, user_id)
            /\ sent' = << Msg("new_dialog", <<>>, <<>>) >>
            /\ llm_calls' = <<>>
            /\ wx_ops' = <<>>
            /\ wx_calls' = <<>>
            /\ last' = Update("handle_message", user_id, text, branch, "none",
                              "replied", <<>>)
            /\ appended' = [appended EXCEPT ![user_id] = <<>>]
            /\ prev' = [prev EXCEPT ![user_id] = NoPrev]
            /\ last_sent' = [last_sent EXCEPT ![user_id] = <<>>]
            /\ dialog' = [dialog EXCEPT ![user_id] = "cleared"]
       [] branch = "weather" ->
            /\ sent' = w.sent
            /\ llm_calls' = <<>>
            /\ wx_ops' = w.ops
            /\ wx_calls' = w.calls
            /\ last' = Update("handle_message", user_id, text, branch, "weather",
                              "replied", <<>>)
            /\ UNCHANGED <<user_histories, appended, prev, last_sent, dialog>>
       [] branch = "completion" ->
            /\ user_histories' = SetHistory(user_histories, user_id, c.hist)
            /\ sent' = c.sent
            /\ llm_calls' = << c.messages >>
            /\ wx_ops' = <<>>
            /\ wx_calls' = <<>>
            /\ last' = Update("handle_message", user_id, text, branch,
                              Intent(ISTANBUL_DATA, text), c.outcome,
                              IF llm.kind = "ok" THEN << llm.content >> ELSE <<>>)
            /\ appended' = [appended EXCEPT ![user_id] = @ \o c.turns]
            /\ prev' = [prev EXCEPT ![user_id] =
                          IF llm.kind = "ok"
                          THEN [text |-> << llm.content >>,
                                kept |-> c.outcome = "answered"]
                          ELSE NoPrev]
            /\ last_sent' = [last_sent EXCEPT ![user_id] =
                               IF c.outcome = "answered" THEN c.answer ELSE @]
            /\ dialog' = [dialog EXCEPT ![user_id] =
                            IF @ = "cleared" THEN "restarted" ELSE "running"]
       [] OTHER ->
            /\ sent' = << MenuReply(ISTANBUL_DATA, branch) >>
            /\ llm_calls' = <<>>
            /\ wx_ops' = <<>>
            /\ wx_calls' = <<>>
            /\ last' = Update("handle_message", user_id, text, branch, "none",
                              "replied", <<>>)
            /\ UNCHANGED <<user_histories, appended, prev, last_sent, dialog>>

\* a lookup that consumes the knowledge base it has read
Lookup_Consuming(handler, user_id, text, reply) ==
  /\ ops' = ops + 1
  /\ sent' = << reply >>
  /\ llm_calls' = <<>>
  /\ wx_ops' = <<>>
  /\ wx_calls' = <<>>
  /\ last' = Update(handler, user_id, text, "lookup", "none", "replied", <<>>)
  /\ ISTANBUL_DATA' = EmptyData
  /\ UNCHANGED <<OPENWEATHER_API_KEY, user_histories, appended,
                 prev, last_sent, dialog, call, in_flight>>

\* the common frame of the knowledge commands and buttons: one reply, no
\* provider call, no access to user_histories
Lookup(handler, user_id, text, reply) ==
  /\ ops' = ops + 1
  /\ sent' = << reply >>
  /\ llm_calls' = <<>>
  /\ wx_ops' = <<>>
  /\ wx_calls' = <<>>
  /\ last' = Update(handler, user_id, text, "lookup", "none", "replied", <<>>)
  /\ UNCHANGED <<ISTANBUL_DATA, OPENWEATHER_API_KEY, user_histories, appended,
                 prev, last_sent, dialog, call, in_flight>>

\* the reply of /sights and /eat (src/bot.py:978-1090)
DistrictReply(data, data_type, args) ==
  LET recs == IF data_type = "sights" THEN data.sights ELSE data.restaurants
      district == normalize_district(args)
      results == FindByDistrict(recs, district)
  IN  IF args = <<>>
      THEN Msg("specify_district", <<>>, get_districts_from_data(data, data_type))
      ELSE IF results = <<>>
      THEN Msg("nothing_found", district, get_districts_from_data(data, data_type))
      ELSE Msg(data_type, district, Names(results))

sights_command(user_id, args) ==
  Lookup("sights_command", user_id, args,
         DistrictReply(ISTANBUL_DATA, "sights", args))

eat_command(user_id, args) ==
  Lookup("eat_command", user_id, args,
         DistrictReply(ISTANBUL_DATA, "restaurants", args))

\* "1 den" in title or "odin den" in title or "klassika" in title
IsOneDayTitle(title) ==
  \/ Contains(LowerAll(title), <<"1", "den">>)
  \/ Contains(LowerAll(title), <<"odin", "den">>)
  \/ Contains(LowerAll(title), <<"klassika">>)

IsTwoDayTitle(title) ==
  \/ Contains(LowerAll(title), <<"2", "dnya">>)
  \/ Contains(LowerAll(title), <<"dva", "dnya">>)

IsThreeDayTitle(title) ==
  \/ Contains(LowerAll(title), <<"3", "dnya">>)
  \/ Contains(LowerAll(title), <<"tri", "dnya">>)

\* the route search loop of button_handler (src/bot.py:461-475)
RECURSIVE FindRoute(_, _, _)
FindRoute(routes, days, route) ==
  IF routes = <<>> THEN route
  ELSE LET r == Head(routes)
       IN  IF days = "1" /\ IsOneDayTitle(r.title) THEN << r >>
           ELSE IF days = "2" /\ IsTwoDayTitle(r.title) THEN << r >>
           ELSE IF days = "3" /\ IsThreeDayTitle(r.title)
           THEN IF ~Contains(LowerAll(r.title), <<"lajtovyj">>)
                THEN FindRoute(Tail(routes), days, << r >>)
                ELSE IF route = <<>>
                THEN FindRoute(Tail(routes), days, << r >>)
                ELSE FindRoute(Tail(routes), days, route)
           ELSE FindRoute(Tail(routes), days, route)

route_command(user_id) ==
  LET route == FindRoute(ISTANBUL_DATA.routes, "1", <<>>)
  IN  Lookup("route_command", user_id, <<>>,
             IF route = <<>> THEN Msg("route_1_not_found", <<>>, <<>>)
             ELSE Msg("route", route[1].title, <<>>))

\* the first route that matches is taken, as for the 1-day and 2-day requests
ButtonReply_FirstMatch(data, query) ==
  LET kind == Head(query)
      arg == Tail(query)
      recs == IF kind = "sights" THEN data.sights ELSE data.restaurants
      results == FindByDistrict(recs, normalize_district(arg))
      matching == SelectSeq(data.routes, LAMBDA r :
                    \/ arg[1] = "1" /\ IsOneDayTitle(r.title)
                    \/ arg[1] = "2" /\ IsTwoDayTitle(r.title)
                    \/ arg[1] = "3" /\ IsThreeDayTitle(r.title))
      route == FirstN(matching, 1)
  IN  IF kind = "route"
      THEN IF route = <<>> THEN Msg("route_not_found", <<>>, <<>>)
           ELSE Msg("route", route[1].title, <<>>)
      ELSE IF results = <<>> THEN Msg("nothing_found_in", arg, <<>>)
      ELSE Msg(IF kind = "sights" THEN "sights" ELSE "restaurants", arg,
               Names(results))

\* the reply of the route_N, sights_D and eat_D buttons (src/bot.py:458-582)
ButtonReply(data, query) ==
  LET kind == Head(query)
      arg == Tail(query)
      recs == IF kind = "sights" THEN data.sights ELSE data.restaurants
      results == FindByDistrict(recs, normalize_district(arg))
      route == FindRoute(data.routes, arg[1], <<>>)
  IN  IF kind = "route"
      THEN IF route = <<>> THEN Msg("route_not_found", <<>>, <<>>)
           ELSE Msg("route", route[1].title, <<>>)
      ELSE IF results = <<>> THEN Msg("nothing_found_in", arg, <<>>)
      ELSE Msg(IF kind = "sights" THEN "sights" ELSE "restaurants", arg,
               Names(results))

button_handler(user_id, query) ==
  Lookup("button_handler", user_id, query, ButtonReply(ISTANBUL_DATA, query))

----------------------------------------------------------------------------
(* Loading and adapting the knowledge base                                 *)
(*                                                                         *)
(* A value read from YAML carries its Python type: a missing key, None, a  *)
(* string (a sequence of words; an id is one word), a list or a mapping.   *)
(* A call that can raise returns Ok(value) or Raise.                       *)

Absent == [t |-> "absent"]
None == [t |-> "none"]
Str(v) == [t |-> "str", v |-> v]
List(items) == [t |-> "list", items |-> items]
Map(fields) == [t |-> "map", fields |-> fields]

Ok(v) == [raised |-> FALSE, value |-> v]
Raise == [raised |-> TRUE]

\* only a dict has .get: any other value raises AttributeError
IsMapping(x) == x.t = "map"

\* m.get(key, default) on a mapping
Get(m, key, default) ==
  IF m.fields[key].t = "absent" THEN default ELSE m.fields[key]

\* bool(x) of a YAML value
Truthy(x) ==
  CASE x.t \in {"absent", "none"} -> FALSE
    [] x.t = "str" -> x.v # <<>>
    [] x.t = "list" -> x.items # <<>>
    [] OTHER -> TRUE

\* the characters of a string value
Text(x) == x.v

\* the key under which a record is stored in places_map / food_map
KeyOf(x) == IF x.t = "str" /\ Len(x.v) = 1 THEN x.v[1] ELSE "None"

AskOnSite == Str(<<"utochnyajte", "na", "meste">>)
Unknown == Str(<<"unknown">>)

Diag(kind, ref) == [kind |-> kind, ref |-> ref]

\* adapt_place_v2_to_legacy: the place is a mapping that passed validation
adapt_place_v2_to_legacy(place) ==
  LET highlights == Get(place, "highlights", List(<<>>))
      visiting == Get(place, "visiting", Map([hours |-> Absent]))
  IN  IF highlights.t # "list" THEN Raise          \* " ".join(None): TypeError
      ELSE IF ~IsMapping(visiting) THEN Raise      \* None.get: AttributeError
      ELSE Ok([name |-> Text(Get(place, "name_ru", Get(place, "name", Str(<<>>)))),
               district |-> normalize_district(Text(Get(place, "district", Str(<<>>)))),
               description |-> IF highlights.items # <<>> THEN Str(highlights.items)
                               ELSE Get(place, "description", Str(<<>>)),
               opening_hours |-> Get(visiting, "hours", AskOnSite),
               price |-> IF Get(place, "category", None) = Str(<<"mechet">>)
                         THEN Str(<<"besplatno">>) ELSE AskOnSite,
               transport |-> Str(<<"rajon">> \o Text(Get(place, "district", Str(<<>>)))),
               area |-> place.fields.area])

\* adapt_food_v2_to_legacy: every field is copied or defaulted, none is inspected
adapt_food_v2_to_legacy(food) ==
  Ok([name |-> Text(Get(food, "name", Str(<<>>))),
      district |-> normalize_district(Text(Get(food, "district", Str(<<>>)))),
      cuisine |-> Get(food, "cuisine", Str(<<"tureckaya">>)),
      price_level |-> Get(food, "price_level", Str(<<"lira">>)),
      description |-> Get(food, "description", Str(<<>>)),
      opening_hours |-> Get(food, "opening_hours", AskOnSite),
      address |-> Get(food, "address", Str(<<>>)),
      transport |-> Str(<<"rajon">> \o Text(Get(food, "district", Str(<<>>)))),
      tags |-> Get(food, "tags", List(<<>>))])

\* {p.get("id"): p for p in records}: a later record replaces an earlier one
IdMap(records) ==
  IF \E i \in 1..Len(records) : ~IsMapping(records[i]) THEN Raise
  ELSE Ok([k \in {KeyOf(Get(records[i], "id", None)) : i \in 1..Len(records)} |->
             LET last_i == CHOOSE i \in 1..Len(records) :
                             /\ KeyOf(Get(records[i], "id", None)) = k
                             /\ \A j \in (i + 1)..Len(records) :
                                  KeyOf(Get(records[j], "id", None)) # k
             IN  records[last_i]])

\* an id that is not in the map yields a record without fields
MapGet_Placeholder(id_map, id) ==
  IF id \in DOMAIN id_map THEN id_map[id]
  ELSE Map([name_ru |-> Absent, name |-> Absent, district |-> Absent])

\* id_map.get(id)
MapGet(id_map, id) == IF id \in DOMAIN id_map THEN id_map[id] ELSE None

Activity(kind, name, qualifier) == [kind |-> kind, name |-> name, qualifier |-> qualifier]

\* the loop over stop_ids of one step
RECURSIVE VisitStops(_, _, _, _)
VisitStops(stop_ids, places_map, activities, step_districts) ==
  IF stop_ids = <<>>
  THEN [activities |-> activities, step_districts |-> step_districts]
  ELSE LET stop_id == Head(stop_ids)
           place == MapGet(places_map, stop_id)
       IN  IF Truthy(place)
           THEN LET name == Get(place, "name_ru", Get(place, "name", Str(<<stop_id>>)))
                    district == normalize_district(Text(Get(place, "district", Str(<<>>))))
                IN  VisitStops(Tail(stop_ids), places_map,
                               Append(activities, Activity("visit", Text(name), <<>>)),
                               IF district # <<>> THEN step_districts \cup {district}
                                                  ELSE step_districts)
           ELSE VisitStops(Tail(stop_ids), places_map, activities, step_districts)

\* the test that decides the "(one has to travel to district X)" qualifier
NeedsTravel(step_districts, food_district) ==
  /\ step_districts # {}
  /\ food_district # <<>>
  /\ LowerAll(food_district) \notin {LowerAll(d) : d \in step_districts}

\* the loop over food_ids of one step
RECURSIVE AddFood(_, _, _, _)
AddFood(food_ids, food_map, activities, step_districts) ==
  IF food_ids = <<>> THEN activities
  ELSE LET food_id == Head(food_ids)
           food == MapGet(food_map, food_id)
       IN  IF Truthy(food)
           THEN LET name == Get(food, "name", Str(<<food_id>>))
                    food_district == normalize_district(Text(Get(food, "district", Str(<<>>))))
                IN  AddFood(Tail(food_ids), food_map,
                            Append(activities,
                                   Activity("eat", Text(name),
                                            IF NeedsTravel(step_districts, food_district)
                                            THEN <<food_district>> ELSE <<>>)),
                            step_districts)
           ELSE AddFood(Tail(food_ids), food_map, activities, step_districts)

\* one iteration of the loop over the steps of a route template
AdaptStep(step, places_map, food_map) ==
  IF ~IsMapping(step) THEN Raise
  ELSE LET time_block == Get(step, "time_block", Str(<<>>))
           day == Get(step, "day", Str(<<>>))
           stop_ids == Get(step, "stop_ids", List(<<>>))
           food_ids == Get(step, "food_ids", List(<<>>))
           notes == Get(step, "notes", List(<<>>))
       IN  IF stop_ids.t # "list" \/ food_ids.t # "list" \/ notes.t # "list"
           THEN Raise                              \* None is not iterable
           ELSE LET visited == VisitStops(stop_ids.items, places_map, <<>>, {})
                    fed == AddFood(food_ids.items, food_map, visited.activities,
                                   visited.step_districts)
                    activities ==
                      fed \o [i \in 1..Len(notes.items) |-> Activity("note", <<notes.items[i]>>, <<>>)]
                IN  Ok([time |-> IF Truthy(day)
                                 THEN <<"den">> \o Text(day) \o <<"-">> \o Text(time_block)
                                 ELSE Text(time_block),
                        activities |-> activities])

RECURSIVE AdaptSteps(_, _, _, _)
AdaptSteps(raw_steps, places_map, food_map, steps) ==
  IF raw_steps = <<>> THEN Ok(steps)
  ELSE LET step == AdaptStep(Head(raw_steps), places_map, food_map)
       IN  IF step.raised THEN Raise
           ELSE AdaptSteps(Tail(raw_steps), places_map, food_map,
                           IF step.value.activities # <<>> THEN Append(steps, step.value)
                                                           ELSE steps)

adapt_route_v2_to_legacy(route_template, places_map, food_map) ==
  IF ~IsMapping(route_template) THEN Raise
  ELSE LET raw_steps == Get(route_template, "steps", List(<<>>))
       IN  IF raw_steps.t # "list" THEN Raise
           ELSE LET steps == AdaptSteps(raw_steps.items, places_map, food_map, <<>>)
                IN  IF steps.raised THEN Raise
                    ELSE Ok([title |-> Text(Get(route_template, "title", Str(<<>>))),
                             steps |-> steps.value])

Validated(records, errors) == [records |-> records, errors |-> errors]

\* newer schema: the loop over places
RECURSIVE ValidatePlaces(_, _, _)
ValidatePlaces(places, normalized_sights, errors) ==
  IF places = <<>> THEN Ok(Validated(normalized_sights, errors))
  ELSE LET place == Head(places)
       IN  IF ~Truthy(Get(place, "name_ru", None)) /\ ~Truthy(Get(place, "name", None))
           THEN ValidatePlaces(Tail(places), normalized_sights,
                  Append(errors, Diag("place_without_name", Get(place, "id", Unknown))))
           ELSE IF ~Truthy(Get(place, "district", None))
           THEN ValidatePlaces(Tail(places), normalized_sights,
                  Append(errors, Diag("place_without_district",
                                      Get(place, "name_ru", Get(place, "name", Unknown)))))
           ELSE LET adapted == adapt_place_v2_to_legacy(place)
                IN  IF adapted.raised THEN Raise
                    ELSE ValidatePlaces(Tail(places),
                           Append(normalized_sights, adapted.value), errors)

\* newer schema: the loop over food
RECURSIVE ValidateFood(_, _, _)
ValidateFood(food, normalized_restaurants, errors) ==
  IF food = <<>> THEN Ok(Validated(normalized_restaurants, errors))
  ELSE LET f == Head(food)
       IN  IF ~Truthy(Get(f, "name", None))
           THEN ValidateFood(Tail(food), normalized_restaurants,
                  Append(errors, Diag("food_without_name", Get(f, "id", Unknown))))
           ELSE IF ~Truthy(Get(f, "district", None))
           THEN ValidateFood(Tail(food), normalized_restaurants,
                  Append(errors, Diag("food_without_district", Get(f, "name", Unknown))))
           ELSE LET adapted == adapt_food_v2_to_legacy(f)
                IN  IF adapted.raised THEN Raise
                    ELSE ValidateFood(Tail(food),
                           Append(normalized_restaurants, adapted.value), errors)

\* newer schema: the loop over route templates, each adapted inside try/except
RECURSIVE AdaptRoutes(_, _, _, _, _)
AdaptRoutes(route_templates, places_map, food_map, normalized_routes, errors) ==
  IF route_templates = <<>> THEN Ok(Validated(normalized_routes, errors))
  ELSE LET route_template == Head(route_templates)
           adapted_route == adapt_route_v2_to_legacy(route_template, places_map, food_map)
       IN  IF adapted_route.raised
           THEN IF ~IsMapping(route_template)
                THEN Raise          \* the except clause itself calls route_template.get
                ELSE AdaptRoutes(Tail(route_templates), places_map, food_map,
                       normalized_routes,
                       Append(errors, Diag("route_adaptation",
                                           Get(route_template, "id", Unknown))))
           ELSE AdaptRoutes(Tail(route_templates), places_map, food_map,
                  IF adapted_route.value.steps # <<>>
                  THEN Append(normalized_routes, adapted_route.value)
                  ELSE normalized_routes,
                  errors)

\* older schema: the loop over sights, validated and completed in place
RECURSIVE ValidateSights(_, _, _)
ValidateSights(sights, normalized_sights, errors) ==
  IF sights = <<>> THEN Ok(Validated(normalized_sights, errors))
  ELSE LET sight == Head(sights)
       IN  IF ~IsMapping(sight) THEN Raise
           ELSE IF ~Truthy(Get(sight, "name", None))
           THEN ValidateSights(Tail(sights), normalized_sights,
                  Append(errors, Diag("sight_without_name", None)))
           ELSE IF ~Truthy(Get(sight, "district", None))
           THEN ValidateSights(Tail(sights), normalized_sights,
                  Append(errors, Diag("sight_without_district", Get(sight, "name", Unknown))))
           ELSE LET district == normalize_district(Text(sight.fields.district))
                IN  ValidateSights(Tail(sights),
                      Append(normalized_sights,
                        [name |-> Text(sight.fields.name),
                         district |-> district,
                         opening_hours |-> Get(sight, "opening_hours",
                                               Get(sight, "open_hours", AskOnSite)),
                         price |-> Get(sight, "price", AskOnSite),
                         transport |-> Get(sight, "transport", Str(<<"rajon">> \o district))]),
                      errors)

\* older schema: the loop over restaurants, validated and completed in place
RECURSIVE ValidateRestaurants(_, _, _)
ValidateRestaurants(restaurants, normalized_restaurants, errors) ==
  IF restaurants = <<>> THEN Ok(Validated(normalized_restaurants, errors))
  ELSE LET restaurant == Head(restaurants)
       IN  IF ~IsMapping(restaurant) THEN Raise
           ELSE IF ~Truthy(Get(restaurant, "name", None))
           THEN ValidateRestaurants(Tail(restaurants), normalized_restaurants,
                  Append(errors, Diag("restaurant_without_name", None)))
           ELSE IF ~Truthy(Get(restaurant, "district", None))
           THEN ValidateRestaurants(Tail(restaurants), normalized_restaurants,
                  Append(errors, Diag("restaurant_without_district",
                                      Get(restaurant, "name", Unknown))))
           ELSE LET district == normalize_district(Text(restaurant.fields.district))
                IN  ValidateRestaurants(Tail(restaurants),
                      Append(normalized_restaurants,
                        [name |-> Text(restaurant.fields.name),
                         district |-> district,
                         price_level |-> restaurant.fields.price_level,
                         opening_hours |-> Get(restaurant, "opening_hours", AskOnSite),
                         address |-> Get(restaurant, "address", Str(<<>>)),
                         transport |-> Get(restaurant, "transport",
                                           Str(<<"rajon">> \o district)),
                         tags |-> Get(restaurant, "tags", List(<<>>))]),
                      errors)

\* older schema: the loop over routes
RECURSIVE ValidateRoutes(_, _, _)
ValidateRoutes(routes, normalized_routes, errors) ==
  IF routes = <<>> THEN Ok(Validated(normalized_routes, errors))
  ELSE LET route == Head(routes)
       IN  IF ~IsMapping(route) THEN Raise
           ELSE IF ~Truthy(Get(route, "title", None))
           THEN ValidateRoutes(Tail(routes), normalized_routes,
                  Append(errors, Diag("route_without_title", None)))
           ELSE IF ~Truthy(Get(route, "steps", None))
           THEN ValidateRoutes(Tail(routes), normalized_routes,
                  Append(errors, Diag("route_without_steps", Get(route, "title", Unknown))))
           ELSE ValidateRoutes(Tail(routes),
                  Append(normalized_routes,
                         [title |-> Text(route.fields.title), steps |-> route.fields.steps.items]),
                  errors)

\* validate_and_normalize_data: the normalized model and the local list errors,
\* or the exception that leaves the function
validate_and_normalize_data(data, is_v2) ==
  IF is_v2
  THEN LET places_map == IdMap(data.places)
           food_map == IdMap(data.food)
       IN  IF places_map.raised \/ food_map.raised THEN Raise
           ELSE LET sights == ValidatePlaces(data.places, <<>>, <<>>)
                IN  IF sights.raised THEN Raise
                    ELSE LET restaurants == ValidateFood(data.food, <<>>, sights.value.errors)
                IN  IF restaurants.raised THEN Raise
                    ELSE LET routes == AdaptRoutes(data.route_templates, places_map.value,
                                                   food_map.value, <<>>,
                                                   restaurants.value.errors)
                IN  IF routes.raised THEN Raise
                    ELSE Ok([normalized |-> [sights |-> sights.value.records,
                                             restaurants |-> restaurants.value.records,
                                             routes |-> routes.value.records],
                             errors |-> routes.value.errors])
  ELSE LET sights == ValidateSights(data.sights, <<>>, <<>>)
       IN  IF sights.raised THEN Raise
           ELSE LET restaurants == ValidateRestaurants(data.restaurants, <<>>,
                                                       sights.value.errors)
       IN  IF restaurants.raised THEN Raise
           ELSE LET routes == ValidateRoutes(data.routes, <<>>, restaurants.value.errors)
       IN  IF routes.raised THEN Raise
           ELSE Ok([normalized |-> [sights |-> sights.value.records,
                                    restaurants |-> restaurants.value.records,
                                    routes |-> routes.value.records],
                    errors |-> routes.value.errors])

\* the older-schema file is tried first
SourceOf_LegacyFirst(files) ==
  IF files.legacy # <<>> THEN "legacy" ELSE IF files.v2 # <<>> THEN "v2" ELSE "none"

\* which file load_istanbul_data reads: the newer schema first
SourceOf(files) ==
  IF files.v2 # <<>> THEN "v2" ELSE IF files.legacy # <<>> THEN "legacy" ELSE "none"

\* the assignments to ISTANBUL_DATA: {} when no file exists, when reading or
\* validating raised, or when the base has neither sights nor restaurants
StoreLoaded(files, source, loaded) ==
  /\ ISTANBUL_DATA' =
       IF source = "none" \/ loaded.raised THEN EmptyData
       ELSE IF loaded.value.normalized.sights = <<>>
               /\ loaded.value.normalized.restaurants = <<>>
       THEN EmptyData
       ELSE loaded.value.normalized
  /\ call' = [op |-> "load_istanbul_data", args |-> files,
              result |-> IF source = "none" THEN [source |-> source, raised |-> FALSE,
                                                  errors |-> <<>>]
                         ELSE IF loaded.raised
                         THEN [source |-> source, raised |-> TRUE, errors |-> <<>>]
                         ELSE [source |-> source, raised |-> FALSE,
                               errors |-> loaded.value.errors]]
  /\ UNCHANGED <<OPENWEATHER_API_KEY, user_histories, sent, llm_calls, wx_ops,
                 wx_calls, last, appended, prev, last_sent, dialog, ops, in_flight>>

\* load_istanbul_data, run once by main before the handlers are registered
load_istanbul_data(files) ==
  StoreLoaded(files, SourceOf(files),
              IF SourceOf(files) = "v2"
              THEN validate_and_normalize_data(files.v2[1], TRUE)
              ELSE IF SourceOf(files) = "legacy"
              THEN validate_and_normalize_data(files.legacy[1], FALSE)
              ELSE Raise)

----------------------------------------------------------------------------
(* Specifications *)

Utterances ==
  { <<"privet">>,                        \* open-ended
    <<"marshrut", "galata">>,            \* domain keyword and a district
    <<"stambul", "pogoda", "v", "galata">>,  \* weather pattern, keyword, district
    <<"stambul", "pogoda", "galata">>,   \* trigger word, district, no preposition
    <<"prognoz", "v", "moskve">>,        \* weather pattern with a forecast trigger
    BtnNewDialog, BtnSights }

CommandArgs == { <<>>, <<"galata">> }

Queries == { <<"route", "1">>, <<"sights", "Galata">>, <<"eat", "Galata">> }

Init ==
  /\ ISTANBUL_DATA \in KnowledgeBases
  /\ OPENWEATHER_API_KEY \in BOOLEAN
  /\ user_histories = << >>
  /\ sent = <<>>
  /\ llm_calls = <<>>
  /\ wx_ops = <<>>
  /\ wx_calls = <<>>
  /\ last = Update("none", "none", <<>>, "none", "none", "none", <<>>)
  /\ appended = [u \in Users |-> <<>>]
  /\ prev = [u \in Users |-> NoPrev]
  /\ last_sent = [u \in Users |-> <<>>]
  /\ dialog = [u \in Users |-> "initial"]
  /\ ops = 0
  /\ call = NoCall
  /\ in_flight = [t \in Tasks |-> Idle]

\* the collaborators' outcomes that the handling of text can observe: the
\* weather provider on the weather branch, the completion provider on the
\* completion branch, the chat service's verdict on an empty answer
Outcomes(data, text, completions) ==
  LET branch == Branch(data, text)
  IN  IF branch = "weather"
      THEN {[wx |-> w, llm |-> LlmOutcome("error", <<>>), tg_blank_ok |-> TRUE] :
              w \in WxOutcomes}
      ELSE IF branch = "completion"
      THEN {[wx |-> "fail", llm |-> l, tg_blank_ok |-> t] :
              l \in LlmOutcomes(completions), t \in BOOLEAN} \
           {o \in [wx : {"fail"}, llm : LlmOutcomes(completions),
                   tg_blank_ok : {FALSE}] :
              o.llm.kind # "ok" \/ Strip(o.llm.content) # <<>>}
      ELSE {[wx |-> "fail", llm |-> LlmOutcome("error", <<>>), tg_blank_ok |-> TRUE]}

MessageStep ==
  /\ ops < MaxOps
  /\ \E user_id \in Users, text \in Utterances :
       \E o \in Outcomes(ISTANBUL_DATA, text, Completions) :
          handle_message(user_id, text, o.wx, o.llm, o.tg_blank_ok)

SightsStep ==
  /\ ops < MaxOps
  /\ \E user_id \in Users, args \in CommandArgs : sights_command(user_id, args)

EatStep ==
  /\ ops < MaxOps
  /\ \E user_id \in Users, args \in CommandArgs : eat_command(user_id, args)

RouteStep ==
  /\ ops < MaxOps
  /\ \E user_id \in Users : route_command(user_id)

ButtonStep ==
  /\ ops < MaxOps
  /\ \E user_id \in Users, query \in Queries : button_handler(user_id, query)

Next == MessageStep \/ SightsStep \/ EatStep \/ RouteStep \/ ButtonStep

Spec == Init /\ [][Next]_vars

\* conversations with a provider that is stuck on one completion: long runs
\* of open-ended utterances, which fill the windows and overflow them
MemUtterances == { <<"privet">>, BtnNewDialog }

InitMem ==
  /\ Init
  /\ ISTANBUL_DATA = GuideData
  /\ OPENWEATHER_API_KEY

MemStep ==
  /\ ops < MaxMemOps
  /\ \E user_id \in Users, text \in MemUtterances :
       \E o \in Outcomes(ISTANBUL_DATA, text, MemCompletions) :
          handle_message(user_id, text, o.wx, o.llm, o.tg_blank_ok)

NextMem == MemStep

SpecMem == InitMem /\ [][NextMem]_vars

\* updates handled concurrently by the event loop.  A coroutine gives up
\* control only at an await: on the completion path of handle_message the
\* awaits are the reply_text calls (src/bot.py:944, 952); the completion call
\* at src/bot.py:920 is a call of the blocking client (src/bot.py:55), so the
\* code from the entry of the handler to its first reply_text is one step.
TaskUtterances == { <<"privet">>, <<"merhaba">>, BtnNewDialog }
TaskCompletions == { <<"a">>, <<"b">> }

Task(pc, user_id, text, pending, delivered) ==
  [pc |-> pc, user |-> user_id, text |-> text, pending |-> pending,
   delivered |-> delivered]

\* a handler that yields to the event loop during the completion call:
\* another utterance of the same user is appended before the answer
Start_YieldsAtCompletion(t, user_id, text, llm, tg_blank_ok) ==
  LET branch == Branch(ISTANBUL_DATA, text)
      h == HistoryOf(user_histories, user_id)
      c == CompletionBranch(h, SystemPrompt(ISTANBUL_DATA, text), text, llm,
                            tg_blank_ok)
      h1 == AppendTurn(AppendTurn(h, UserTurn(text)), UserTurn(<<"eshche">>))
  IN
  /\ in_flight[t].pc = "idle"
  /\ IF branch = "new_dialog"
     THEN /\ user_histories' = ClearHistory(user_histories, user_id)
          /\ in_flight' = [in_flight EXCEPT ![t] =
                             Task("reply", user_id, text,
                                  << Msg("new_dialog", <<>>, <<>>) >>, <<>>)]
     ELSE /\ user_histories' =
               SetHistory(user_histories, user_id,
                          IF Len(c.turns) = 2 THEN AppendTurn(h1, c.turns[2])
                          ELSE h1)
          /\ in_flight' = [in_flight EXCEPT ![t] =
                             Task(IF c.sent = <<>> THEN "done" ELSE "reply",
                                  user_id, text, c.sent, <<>>)]
  /\ UNCHANGED <<ISTANBUL_DATA, OPENWEATHER_API_KEY, sent, llm_calls, wx_ops,
                 wx_calls, last, appended, prev, last_sent, dialog, ops, call>>

\* handle_message from its entry to its first await (src/bot.py:660-944)
Start(t, user_id, text, llm, tg_blank_ok) ==
  LET branch == Branch(ISTANBUL_DATA, text)
      h == HistoryOf(user_histories, user_id)
      c == CompletionBranch(h, SystemPrompt(ISTANBUL_DATA, text), text, llm,
                            tg_blank_ok)
  IN
  /\ in_flight[t].pc = "idle"
  /\ IF branch = "new_dialog"
     THEN /\ user_histories' = ClearHistory(user_histories, user_id)
          /\ in_flight' = [in_flight EXCEPT ![t] =
                             Task("reply", user_id, text,
                                  << Msg("new_dialog", <<>>, <<>>) >>, <<>>)]
     ELSE /\ user_histories' = SetHistory(user_histories, user_id, c.hist)
          /\ in_flight' = [in_flight EXCEPT ![t] =
                             Task(IF c.sent = <<>> THEN "done" ELSE "reply",
                                  user_id, text, c.sent, <<>>)]
  /\ UNCHANGED <<ISTANBUL_DATA, OPENWEATHER_API_KEY, sent, llm_calls, wx_ops,
                 wx_calls, last, appended, prev, last_sent, dialog, ops, call>>

\* a reply_text call completes and the handler runs to its next await or to
\* its end
Resume(t) ==
  LET k == in_flight[t]
  IN
  /\ k.pc = "reply"
  /\ in_flight' = [in_flight EXCEPT ![t] =
                     Task(IF Len(k.pending) = 1 THEN "done" ELSE "reply",
                          k.user, k.text, Tail(k.pending),
                          Append(k.delivered, Head(k.pending)))]
  /\ UNCHANGED <<ISTANBUL_DATA, OPENWEATHER_API_KEY, user_histories, sent,
                 llm_calls, wx_ops, wx_calls, last, appended, prev, last_sent,
                 dialog, ops, call>>

StartStep ==
  /\ \E t \in Tasks : in_flight[t].pc = "idle"
  /\ \E t \in Tasks, user_id \in Users, text \in TaskUtterances :
       \E o \in Outcomes(ISTANBUL_DATA, text, TaskCompletions) :
          Start(t, user_id, text, o.llm, o.tg_blank_ok)

ResumeStep ==
  /\ \E t \in Tasks : in_flight[t].pc = "reply"
  /\ \E t \in Tasks : Resume(t)

NextTasks == StartStep \/ ResumeStep

SpecTasks == InitMem /\ [][NextTasks]_vars

\* the knowledge files main finds at start-up.  Records are drawn from small
\* pools holding a well-formed record and one record for each way of being
\* incomplete or of the wrong shape.
MaxPlaces == 2
MaxFood == 1

SeqsUpTo(S, n) == UNION {[1..k -> S] : k \in 0..n}

Place(id, name_ru, name, district, highlights, visiting, category) ==
  Map([id |-> Str(<<id>>), name_ru |-> name_ru, name |-> name, district |-> district,
       highlights |-> highlights, description |-> Absent, visiting |-> visiting,
       category |-> category, area |-> Absent])

Food(id, name, district, tags) ==
  Map([id |-> Str(<<id>>), name |-> name, district |-> district, cuisine |-> Absent,
       price_level |-> Absent, description |-> Absent, opening_hours |-> Absent,
       address |-> Absent, tags |-> tags])

Step(time_block, day, stop_ids, food_ids, notes) ==
  Map([time_block |-> Str(time_block), day |-> day, stop_ids |-> stop_ids,
       food_ids |-> food_ids, notes |-> notes])

RouteTemplate(id, title, steps) ==
  Map([id |-> Str(<<id>>), title |-> Str(title), steps |-> List(steps)])

NotAMapping == Str(<<"junk">>)

\* p1 is complete; p2 has no district; p3 has an empty name_ru beside its
\* name; p4 has no name; p5 and p6 have a visiting / highlights that is None
PlacePool ==
  { Place("p1", Str(<<"Bashnya">>), Absent, Str(<<"galata">>), List(<<"vid">>),
          Map([hours |-> Str(<<"9-18">>)]), Absent),
    Place("p2", Absent, Str(<<"Dvorec">>), Absent, Absent, Absent, Absent),
    Place("p3", Str(<<>>), Str(<<"Cisterna">>), Str(<<"karakoy">>), Absent, Absent,
          Str(<<"mechet">>)),
    Place("p4", Absent, Absent, Str(<<"galata">>), Absent, Absent, Absent),
    Place("p5", Str(<<"Most">>), Absent, Str(<<"karakoy">>), Absent, None, Absent),
    Place("p6", Str(<<"Rynok">>), Absent, Str(<<"karakoy">>), None, Absent, Absent),
    NotAMapping }

\* f1 and f2 are complete, in two districts; f3 has no district; the tags of
\* f4 are a string
FoodPool ==
  { Food("f1", Str(<<"Lokanta">>), Str(<<"karakoy">>), Absent),
    Food("f2", Str(<<"Balik">>), Str(<<"GALATA">>), List(<<"ryba">>)),
    Food("f3", Str(<<"Kebab">>), Absent, Absent),
    Food("f4", Str(<<"Simit">>), Str(<<"galata">>), Str(<<"ulica">>)),
    NotAMapping }

\* r1: a morning among the places p1 and p2 with the eateries f1, f2, f3, then
\* an evening whose only stop id resolves to no record; r2: stop_ids is None
RoutePool ==
  { RouteTemplate("r1", <<"Klassika">>,
      << Step(<<"utro">>, Str(<<"1">>), List(<<"p1", "p2">>),
              List(<<"f1", "f2", "f3">>), List(<<"bilet">>)),
         Step(<<"vecher">>, Absent, List(<<"p9">>), List(<<"f1", "f4">>), Absent) >>),
    RouteTemplate("r2", <<"Progulka">>,
      << Step(<<"utro">>, Absent, None, Absent, Absent) >>),
    NotAMapping }

V2Docs ==
  {[places |-> p, food |-> f, route_templates |-> r] :
     p \in SeqsUpTo(PlacePool, MaxPlaces), f \in SeqsUpTo(FoodPool, MaxFood),
     r \in SeqsUpTo(RoutePool, 1)}

Sight(name, district, opening_hours, open_hours, price) ==
  Map([name |-> name, district |-> district, opening_hours |-> opening_hours,
       open_hours |-> open_hours, price |-> price, transport |-> Absent])

Restaurant(name, district, price_level, tags) ==
  Map([name |-> name, district |-> district, price_level |-> price_level,
       opening_hours |-> Absent, address |-> Absent, transport |-> Absent,
       tags |-> tags])

Route(title, steps) == Map([title |-> title, steps |-> steps])

SightPool ==
  { Sight(Str(<<"Bashnya">>), Str(<<"galata">>), Absent, Str(<<"9-18">>), Absent),
    Sight(Str(<<"Dvorec">>), Str(<<"KARAKOY">>), Str(<<"10-17">>), Absent,
          Str(<<"bilet">>)),
    Sight(Str(<<"Cisterna">>), Absent, Absent, Absent, Absent),
    Sight(Absent, Str(<<"galata">>), Absent, Absent, Absent) }

RestaurantPool ==
  { Restaurant(Str(<<"Lokanta">>), Str(<<"karakoy">>), Absent, Absent),
    Restaurant(Str(<<"Balik">>), Str(<<"galata">>), Str(<<"lira">>), List(<<"ryba">>)),
    Restaurant(Str(<<>>), Str(<<"galata">>), Absent, Absent),
    Restaurant(Str(<<"Kebab">>), Str(<<>>), Absent, Absent) }

LegacyRoutePool ==
  { Route(Str(<<"Klassika">>), List(<<"utro">>)),
    Route(Str(<<"Progulka">>), List(<<>>)),
    Route(Absent, List(<<"utro">>)) }

LegacyDocs ==
  {[sights |-> s, restaurants |-> r, routes |-> t] :
     s \in SeqsUpTo(SightPool, MaxPlaces), r \in SeqsUpTo(RestaurantPool, MaxFood),
     t \in SeqsUpTo(LegacyRoutePool, 1)}

\* each file alone, both together, or neither
Files ==
  {[v2 |-> <<d>>, legacy |-> <<>>] : d \in V2Docs}
    \cup {[v2 |-> <<>>, legacy |-> <<d>>] : d \in LegacyDocs}
    \cup {[v2 |-> <<d>>, legacy |-> <<e>>] :
            d \in {x \in V2Docs : Len(x.places) <= 1 /\ x.food = <<>>
                                  /\ x.route_templates = <<>>},
            e \in {x \in LegacyDocs : Len(x.sights) = 1 /\ x.restaurants = <<>>
                                      /\ x.routes = <<>>}}
    \cup {[v2 |-> <<>>, legacy |-> <<>>]}

\* the module is imported (ISTANBUL_DATA = {}) and main has not run yet
InitLoad ==
  /\ ISTANBUL_DATA = EmptyData
  /\ OPENWEATHER_API_KEY \in BOOLEAN
  /\ user_histories = << >>
  /\ sent = <<>>
  /\ llm_calls = <<>>
  /\ wx_ops = <<>>
  /\ wx_calls = <<>>
  /\ last = Update("none", "none", <<>>, "none", "none", "none", <<>>)
  /\ appended = [u \in Users |-> <<>>]
  /\ prev = [u \in Users |-> NoPrev]
  /\ last_sent = [u \in Users |-> <<>>]
  /\ dialog = [u \in Users |-> "initial"]
  /\ ops = 0
  /\ call = NoCall
  /\ in_flight = [t \in Tasks |-> Idle]

\* main calls load_istanbul_data once, on whatever files are there
LoadStep ==
  /\ call = NoCall
  /\ \E files \in Files : load_istanbul_data(files)

NextLoad == LoadStep

SpecLoad == InitLoad /\ [][NextLoad]_vars

\* single calls of the text and search functions, on every input up to a size
MaxTextLen == 5
MaxLimit == 4
MaxDistrictLen == 3
MaxRoutes == 3
MaxRecords == 3

\* one call of a function, recorded with its arguments and its result
Apply(op, args, result) ==
  /\ call' = [op |-> op, args |-> args, result |-> result]
  /\ UNCHANGED <<ISTANBUL_DATA, OPENWEATHER_API_KEY, user_histories, sent, llm_calls,
                 wx_ops, wx_calls, last, appended, prev, last_sent, dialog, ops, in_flight>>

ChunkStep ==
  /\ call = NoCall
  /\ \E text \in SeqsUpTo({"a", " ", "\n"}, MaxTextLen), limit \in 1..MaxLimit :
     Apply("split_into_telegram_chunks", <<text, limit>>,
           split_into_telegram_chunks(text, limit))

NormalizeStep ==
  /\ call = NoCall
  /\ \E district \in SeqsUpTo({"a", "A", "Idot", " "}, MaxDistrictLen) :
     Apply("normalize_district", district, normalize_district_text(district))

\* the button of the 3-day route, on a knowledge base with these routes
Route3Step ==
  /\ call = NoCall
  /\ \E routes \in SeqsUpTo({[title |-> t, steps |-> <<"utro">>] :
                             t \in { <<"Stambul", "3", "dnya">>,
                                     <<"lajtovyj", "3", "dnya">>,
                                     <<"Tri", "dnya", "lajtovyj">>,
                                     <<"Klassika">> }}, MaxRoutes) :
     Apply("route_3", routes,
           ButtonReply([EmptyData EXCEPT !.routes = routes], <<"route", "3">>))

\* /sights and /eat with a district argument, on a knowledge base whose
\* records of that kind are these
LookupStep ==
  /\ call = NoCall
  /\ \E data_type \in {"sights", "restaurants"},
     args \in { <<"galata">>, <<"KARAKOY">>, <<"moskve">> },
     recs \in SeqsUpTo([name : { <<"Bashnya">>, <<"Dvorec">>, <<"Most">> },
                        district : { <<"Galata">>, <<"Karakoy">> }], MaxRecords) :
     Apply("district_lookup", <<data_type, recs, args>>,
           DistrictReply([EmptyData EXCEPT ![data_type] = recs], data_type, args))

\* the weather branch of handle_message on utterances that match the weather
\* pattern, with and without the phrases of the forecast test around it
WeatherStep ==
  /\ call = NoCall
  /\ \E pre \in { <<>>, <<"na", "3", "dnya">>, <<"privet">> },
        head \in { <<"pogoda", "v", "moskve">>, <<"temperatura", "po", "stambule">>,
                   <<"prognoz", "dlya", "moskve">> },
        tail \in { <<>>, <<"na", "3", "dnya">>, <<"na", "Tri", "dnya">>,
                   <<"na", "3">>, <<"tri", "dnya">>, <<"na", "dnya", "3">>,
                   <<"prognoz">> },
        key \in BOOLEAN, wx \in WxOutcomes :
        /\ Branch(ISTANBUL_DATA, pre \o head \o tail) = "weather"
        /\ Apply("weather_branch", <<pre \o head \o tail, key, wx>>,
                 WeatherBranch(key, pre \o head \o tail, wx))

\* the record selection of a free-text question about Istanbul, on a
\* knowledge base with these places and eateries
RelevantStep ==
  /\ call = NoCall
  /\ \E text \in { <<"marshrut", "galata">>, <<"marshrut", "galata", "karakoy">>,
                   <<"stambul", "karakoy", "galata">> },
        sights \in SeqsUpTo([name : { <<"Bashnya">>, <<"Dvorec">> },
                             district : { <<"Galata">>, <<"Karakoy">> }], MaxPlaces),
        restaurants \in SeqsUpTo([name : { <<"Lokanta">> },
                                  district : { <<"Galata">>, <<"Karakoy">> }], MaxFood) :
        Apply("relevant_data",
              <<[sights |-> sights, restaurants |-> restaurants, routes |-> <<>>], text>>,
              RelevantData([sights |-> sights, restaurants |-> restaurants,
                            routes |-> <<>>], text))

NextFn ==
  ChunkStep \/ NormalizeStep \/ Route3Step \/ LookupStep \/ WeatherStep \/ RelevantStep

SpecFn == InitLoad /\ [][NextFn]_vars

----------------------------------------------------------------------------
(* Properties *)

Handled == last.handler # "none"

\* the update handled by a step was a completion request of user u
CompletionFor(u, l) ==
  l.handler = "handle_message" /\ l.branch = "completion" /\ l.user = u

AnswerSent(msgs) == \E i \in 1..Len(msgs) : msgs[i].tmpl = "answer"

\* C1: when the completion provider returns the same text for two
\* consecutive open-ended utterances of a user, with no new-conversation
\* command between them, the first answer was sent and recorded as an
\* assistant turn and the second is neither sent nor recorded (only the user
\* turn is appended).
C1_RepeatedCompletionKeptOnce ==
  [][\A u \in Users :
       (/\ CompletionFor(u, last')
        /\ last'.completion # <<>>
        /\ prev[u].text = last'.completion)
       => /\ prev[u].kept
          /\ sent' = <<>>
          /\ HistoryOf(user_histories', u) =
               AppendTurn(HistoryOf(user_histories, u), UserTurn(last'.text))]_vars

\* C2: while the completion provider keeps returning the text of the last
\* answer sent to a user, that text is not sent to the user again, until a
\* different answer is sent or the user starts a new conversation.
C2_LastSentNeverResent ==
  [][\A u \in Users :
       (/\ CompletionFor(u, last')
        /\ last_sent[u] # <<>>
        /\ last'.completion = last_sent[u])
       => ~AnswerSent(sent')]_vars

C4_WindowIsLastTen ==
  \A u \in Users :
     /\ HistoryOf(user_histories, u) = LastN(appended[u], 10)
     /\ Len(HistoryOf(user_histories, u)) =
          (IF Len(appended[u]) < 10 THEN Len(appended[u]) ELSE 10)

C4_Witness ==
  \E u \in Users :
     /\ Len(appended[u]) >= 12
     /\ \E i, j \in 1..Len(appended[u]) : appended[u][i] # appended[u][j]

\* the turns of the user's window at the time of the completion call of the
\* last handled update: the assistant turn, if any, was appended after it
TurnsAtCall ==
  LET a == appended[last.user]
  IN  IF last.outcome \in {"answered", "send_failed"}
      THEN SubSeq(a, 1, Len(a) - 1) ELSE a

\* C5: every call to the completion provider carries exactly one system
\* message, placed first, then the most recent at most 4 turns of the user's
\* window in chronological order, the last being the utterance handled.
C5_PromptShape ==
  /\ Len(llm_calls) <= 1
  /\ \A c \in 1..Len(llm_calls) :
       LET m == llm_calls[c]
       IN  /\ Len(m) >= 2 /\ Len(m) <= 5
           /\ m[1].role = "system"
           /\ \A k \in 2..Len(m) : m[k].role # "system"
           /\ Tail(m) = LastN(LastN(TurnsAtCall, 10), 4)
           /\ m[Len(m)] = UserTurn(last.text)

C5_Witness ==
  /\ Len(llm_calls) = 1
  /\ Len(llm_calls[1]) = 5
  /\ Len(TurnsAtCall) >= 6
  /\ \E k \in 2..5 : llm_calls[1][k].role = "assistant"

\* C6: after the new-conversation command the user's entry still exists and
\* its window is empty, the search for the latest assistant turn finds none,
\* and the prompt of the user's next completion request holds only the system
\* message and the utterance itself.
C6_NewDialogStartsEmpty ==
  \A u \in Users :
     /\ dialog[u] = "cleared" =>
          /\ u \in DOMAIN user_histories
          /\ user_histories[u] = <<>>
          /\ LastAssistant(user_histories[u]) = <<>>
     /\ (dialog[u] = "restarted" /\ CompletionFor(u, last)) =>
          /\ Len(llm_calls) = 1
          /\ Len(llm_calls[1]) = 2
          /\ llm_calls[1][1].role = "system"
          /\ llm_calls[1][2] = UserTurn(last.text)

C6_Witness ==
  \E u \in Users :
     /\ dialog[u] = "restarted"
     /\ CompletionFor(u, last)
     /\ last.outcome = "answered"
     /\ \E v \in Users \ {u} : Len(HistoryOf(user_histories, v)) >= 4

\* C7: handling an update of one user (append, clear, suppression, provider
\* failure) leaves every other user's window and entry as they were, so each
\* window is the last ten turns of that user's own appends.
C7_WindowsAreIndependent ==
  [][/\ \A v \in Users \ {last'.user} :
          /\ (v \in DOMAIN user_histories') = (v \in DOMAIN user_histories)
          /\ HistoryOf(user_histories', v) = HistoryOf(user_histories, v)
     /\ \A v \in Users :
          HistoryOf(user_histories', v) = LastN(appended'[v], 10)]_vars

C7_Witness ==
  /\ \A v \in Users : Len(HistoryOf(user_histories, v)) >= 1
  /\ \E u, v \in Users : HistoryOf(user_histories, u) # HistoryOf(user_histories, v)
  /\ \E u \in Users : Len(appended[u]) > 10
  /\ last.outcome \in {"suppressed", "failed"}

KnowledgeUnavailable == ISTANBUL_DATA = EmptyData

\* C8: when the knowledge base is unavailable, every knowledge lookup (the
\* /sights, /eat and /route commands, the district and route buttons) replies
\* with an explicit "unavailable" message, never with "nothing found" or an
\* empty list.
C8_UnavailableIsExplicit ==
  (KnowledgeUnavailable /\ last.branch \in {"lookup", "sights_menu", "restaurants_menu"})
    => \A i \in 1..Len(sent) : sent[i].tmpl = "knowledge_base_unavailable"

MentionedRecords(recs, text) ==
  {recs[i] : i \in {k \in 1..Len(recs) :
                      Contains(LowerAll(text), LowerAll(recs[k].district))}}

HasTriggerWord(text) == \E i \in 1..Len(text) : IsTrigger(text[i])

\* a trigger word, later a preposition, and a city word right after it
HasWeatherPhrase(text) ==
  \E i, j \in 1..Len(text) :
     /\ i < j /\ j < Len(text)
     /\ IsTrigger(text[i]) /\ EndsWithPrep(text[j]) /\ IsCityWord(text[j + 1])

\* C10 as stated: an utterance with a known district name and a weather
\* trigger word is always handled as a weather intent: the weather provider is
\* called, the completion provider is not, the window is not changed.
C10_TriggerAndDistrictIsWeather ==
  [][(/\ last'.handler = "handle_message"
      /\ HasTriggerWord(last'.text)
      /\ DistrictsMentioned(ISTANBUL_DATA, last'.text) # <<>>)
       => /\ last'.branch = "weather"
          /\ wx_calls' # <<>>
          /\ llm_calls' = <<>>
          /\ user_histories' = user_histories]_vars

\* C10 amended: an utterance that matches the weather pattern (a trigger word
\* followed later by a preposition v / po / dlya and a city word) is always
\* handled as a weather intent, also when it contains a domain keyword and a
\* known district name: exactly one weather operation is invoked, it queries
\* the weather provider exactly when the API key is configured, the
\* completion provider is not called and the window is not changed.
C10_WeatherPhraseIsWeather ==
  [][(last'.handler = "handle_message" /\ HasWeatherPhrase(last'.text))
       => /\ last'.branch = "weather"
          /\ Len(wx_ops') = 1
          /\ Len(wx_calls') = (IF OPENWEATHER_API_KEY THEN 1 ELSE 0)
          /\ llm_calls' = <<>>
          /\ user_histories' = user_histories
          /\ appended' = appended]_vars

C10_Witness ==
  /\ last.branch = "weather"
  /\ HasTriggerWord(last.text)
  /\ IsIstanbulRelated(last.text)
  /\ DistrictsMentioned(ISTANBUL_DATA, last.text) # <<>>
  /\ Len(wx_calls) = 1
  /\ user_histories # << >>

\* ---- the loader and the adapter (SpecLoad) ----

Loaded == call.op = "load_istanbul_data"

\* validation ran to its end on the file of that schema
Validated_From(source) ==
  Loaded /\ call.result.source = source /\ ~call.result.raised

\* the display name of a source record: name_ru, else name, for a place of
\* the newer schema; name for every other record
DisplayName(r, is_place_v2) ==
  IF is_place_v2 THEN Get(r, "name_ru", Get(r, "name", Str(<<>>)))
  ELSE Get(r, "name", Str(<<>>))

Complete(r, is_place_v2) ==
  Truthy(DisplayName(r, is_place_v2)) /\ Truthy(Get(r, "district", None))

CompleteOnes(records, is_place_v2) ==
  SelectSeq(records, LAMBDA r : Complete(r, is_place_v2))

DropDiagnostics(errors) ==
  SelectSeq(errors, LAMBDA e :
    e.kind \in {"place_without_name", "place_without_district", "food_without_name",
                "food_without_district", "sight_without_name", "sight_without_district",
                "restaurant_without_name", "restaurant_without_district"})

\* the normalized lists are the complete source records, in order, under
\* their display names and normalized districts, and every other record left
\* one diagnostic
KeptAndDropped(places, food, is_v2) ==
  LET kept_places == CompleteOnes(places, is_v2)
      kept_food == CompleteOnes(food, FALSE)
  IN  /\ \A r \in Range(ISTANBUL_DATA.sights) \cup Range(ISTANBUL_DATA.restaurants) :
           r.name # <<>> /\ r.district # <<>>
      /\ Names(ISTANBUL_DATA.sights) =
           [i \in 1..Len(kept_places) |-> Text(DisplayName(kept_places[i], is_v2))]
      /\ Names(ISTANBUL_DATA.restaurants) =
           [i \in 1..Len(kept_food) |-> Text(DisplayName(kept_food[i], FALSE))]
      /\ Len(DropDiagnostics(call.result.errors)) =
           (Len(places) - Len(kept_places)) + (Len(food) - Len(kept_food))

\* C11: under both schema versions, a place or eatery whose display name or
\* district is missing or empty never appears in the normalized model, each
\* such record leaves one diagnostic, and every record that has both fields
\* does appear.
C11_IncompleteRecordsDropped ==
  /\ Validated_From("v2") =>
       KeptAndDropped(call.args.v2[1].places, call.args.v2[1].food, TRUE)
  /\ Validated_From("legacy") =>
       KeptAndDropped(call.args.legacy[1].sights, call.args.legacy[1].restaurants, FALSE)

\* a record that is not a mapping, or whose optional field has the wrong shape
MalformedPlace(r) ==
  \/ ~IsMapping(r)
  \/ Get(r, "highlights", List(<<>>)).t # "list"
  \/ Get(r, "visiting", Map([hours |-> Absent])).t # "map"

MalformedFood(r) == ~IsMapping(r) \/ Get(r, "tags", List(<<>>)).t # "list"

MalformedRoute(r) ==
  \/ ~IsMapping(r)
  \/ \E i \in 1..Len(r.fields.steps.items) :
       \E key \in {"stop_ids", "food_ids", "notes"} :
          Get(r.fields.steps.items[i], key, List(<<>>)).t # "list"

\* C12: a single malformed record (not a mapping, or an optional field of the
\* wrong shape) never makes the adapter raise: that record alone is dropped
\* with a diagnostic and every well-formed record is still in the normalized
\* model.
C12_MalformedRecordDroppedAlone ==
  LET data == call.args.v2[1]
      bad_places == SelectSeq(data.places, MalformedPlace)
      bad_food == SelectSeq(data.food, MalformedFood)
      bad_routes == SelectSeq(data.route_templates, MalformedRoute)
      good_places == SelectSeq(data.places,
                               LAMBDA r : ~MalformedPlace(r) /\ Complete(r, TRUE))
      good_food == SelectSeq(data.food,
                             LAMBDA r : ~MalformedFood(r) /\ Complete(r, FALSE))
  IN  (/\ Loaded
       /\ call.result.source = "v2"
       /\ Len(bad_places) + Len(bad_food) + Len(bad_routes) = 1)
      => /\ ~call.result.raised
         /\ call.result.errors # <<>>
         /\ \A r \in Range(good_places) :
              Text(DisplayName(r, TRUE)) \in Range(Names(ISTANBUL_DATA.sights))
         /\ \A r \in Range(good_food) :
              Text(DisplayName(r, FALSE)) \in Range(Names(ISTANBUL_DATA.restaurants))
         /\ \A r \in Range(bad_food) : IsMapping(r) =>
              Text(DisplayName(r, FALSE)) \notin Range(Names(ISTANBUL_DATA.restaurants))

\* the activity lines of one kind in the routes of the normalized model
ActivityLines(kind) ==
  { a \in UNION { UNION { Range(ISTANBUL_DATA.routes[i].steps[j].activities) :
                            j \in 1..Len(ISTANBUL_DATA.routes[i].steps) } :
                    i \in 1..Len(ISTANBUL_DATA.routes) } : a.kind = kind }

\* C13: in the newer schema a reference from a route step to a place or
\* eatery that validation drops is skipped: the adapted routes hold activity
\* lines only for places and eateries of the normalized model.
C13_DroppedReferenceSkipped ==
  Validated_From("v2") =>
    /\ \A a \in ActivityLines("visit") : a.name \in Range(Names(ISTANBUL_DATA.sights))
    /\ \A a \in ActivityLines("eat") : a.name \in Range(Names(ISTANBUL_DATA.restaurants))

\* the normalized districts of the source records that go by one of the names
DistrictsOf(records, names, is_place_v2) ==
  { normalize_district(Text(Get(r, "district", Str(<<>>)))) :
      r \in { x \in Range(records) :
                IsMapping(x) /\ Text(DisplayName(x, is_place_v2)) \in names } }

\* C14: in an adapted route step the line of an eatery carries the travel
\* qualifier, naming the eatery's district, exactly when the step has a
\* resolved place with a district and the eatery's normalized district is not,
\* ignoring case, among the districts of the step's places.
C14_QualifierIffOtherDistrict ==
  Validated_From("v2") =>
    \A i \in 1..Len(ISTANBUL_DATA.routes) :
      \A j \in 1..Len(ISTANBUL_DATA.routes[i].steps) :
        LET activities == ISTANBUL_DATA.routes[i].steps[j].activities
            visited == { a.name : a \in { x \in Range(activities) : x.kind = "visit" } }
            step_districts ==
              DistrictsOf(call.args.v2[1].places, visited, TRUE) \ { <<>> }
        IN  \A a \in { x \in Range(activities) : x.kind = "eat" } :
              \A food_district \in DistrictsOf(call.args.v2[1].food, {a.name}, FALSE) :
                 /\ a.qualifier # <<>> <=>
                      /\ step_districts # {}
                      /\ LowerAll(food_district) \notin
                           { LowerAll(d) : d \in step_districts }
                 /\ a.qualifier # <<>> => a.qualifier = <<food_district>>

\* ---- single calls of the text and search functions (SpecFn) ----

Chunked == call.op = "split_into_telegram_chunks"

\* C15: for any text and any limit >= 1 the chunks are cut at line boundaries
\* only: they are consecutive groups of the lines of the text, in the
\* original order, each joined and stripped; and every chunk has length at
\* most limit unless it is a single line that is itself longer than limit.
C15_ChunksAreLineGroups ==
  Chunked =>
    LET limit == call.args[2]
        parts == call.result
        lines == SplitLines(call.args[1], <<>>)
    IN  \E end \in [1..Len(parts) -> 1..Len(lines)] :
          /\ end[Len(parts)] = Len(lines)
          /\ \A k \in 1..Len(parts) :
               LET first == IF k = 1 THEN 1 ELSE end[k - 1] + 1
               IN  /\ first <= end[k]
                   /\ parts[k] = Strip(JoinLines(SubSeq(lines, first, end[k])))
                   /\ \/ Len(parts[k]) <= limit
                      \/ first = end[k] /\ Len(lines[first]) > limit

\* a text cut into several chunks, one of them holding more than one line
C15_Witness ==
  /\ Chunked
  /\ Len(call.result) >= 2
  /\ \E k \in 1..Len(call.result) : "\n" \in Range(call.result[k])

\* C16: chunking is idempotent: joining the chunks with newlines and chunking
\* the result again with the same limit gives the same chunks.
C16_RechunkingIsIdempotent ==
  Chunked =>
    split_into_telegram_chunks(JoinLines(call.result), call.args[2]) = call.result

Route3 == call.op = "route_3"

\* the routes of the knowledge base whose title asks for three days, and
\* those of them without the "light" qualifier
ThreeDayRoutes(routes) ==
  SelectSeq(routes, LAMBDA r :
    \/ Contains(LowerAll(r.title), <<"3", "dnya">>)
    \/ Contains(LowerAll(r.title), <<"tri", "dnya">>))

Unqualified(routes) ==
  SelectSeq(routes, LAMBDA r : ~Contains(LowerAll(r.title), <<"lajtovyj">>))

\* C19: for a 3-day route request, whatever the order of the routes: if some
\* matching route lacks the "light" qualifier, a route without the qualifier
\* is returned; if only qualified routes match, one of them is returned;
\* not-found is reported only when no route matches.
C19_UnqualifiedRoutePreferred ==
  Route3 =>
    LET matching == ThreeDayRoutes(call.args)
        plain == Unqualified(matching)
    IN  /\ plain # <<>> =>
             /\ call.result.tmpl = "route"
             /\ call.result.text \in {plain[i].title : i \in 1..Len(plain)}
        /\ (plain = <<>> /\ matching # <<>>) =>
             /\ call.result.tmpl = "route"
             /\ call.result.text \in {matching[i].title : i \in 1..Len(matching)}
        /\ call.result.tmpl = "route_not_found" <=> matching = <<>>

\* a qualified route stands before an unqualified one and the latter is returned
C19_Witness ==
  /\ Route3
  /\ Len(call.args) >= 2
  /\ Unqualified(<<call.args[1]>>) = <<>>
  /\ ThreeDayRoutes(<<call.args[1]>>) # <<>>
  /\ Unqualified(ThreeDayRoutes(call.args)) # <<>>
  /\ call.result.tmpl = "route"
  /\ Unqualified(<<[title |-> call.result.text]>>) # <<>>

Normalized == call.op = "normalize_district"

\* str.lower()
LowerStr(s) == Flatten([i \in 1..Len(s) |-> ToLower(s[i])])

\* x and y differ only in letter case, in leading or trailing white space, or
\* in the amount of white space between words
SameUpToCaseAndSpace(x, y) ==
  LowerStr(JoinSplit(x, "start")) = LowerStr(JoinSplit(y, "start"))

\* C20: normalize_district is idempotent, and it gives the same key for any
\* two inputs that differ only in letter case, leading or trailing white
\* space, or the amount of white space between words.
C20_NormalizeIdempotentInsensitive ==
  Normalized =>
    /\ normalize_district_text(call.result) = call.result
    /\ \A y \in SeqsUpTo({"a", "A", "Idot", " "}, MaxDistrictLen) :
         SameUpToCaseAndSpace(call.args, y) => normalize_district_text(y) = call.result

\* ---- provider failures and district lookups (Spec) ----

WeatherFailed ==
  last.branch = "weather" /\ \E i \in 1..Len(wx_calls) : ~wx_calls[i].ok

CompletionFailed == last.branch = "completion" /\ last.outcome = "failed"

\* C17: when the weather provider or the completion provider fails for an
\* utterance, the provider is not called again for that utterance, exactly
\* one fixed degraded message is sent to the user, and the handler ends
\* normally.
C17_FailedCallDegradesOnce ==
  /\ WeatherFailed =>
       /\ Len(wx_calls) = 1
       /\ llm_calls = <<>>
       /\ Len(sent) = 1
       /\ sent[1] \in { Msg("weather_failed", <<>>, <<>>),
                        Msg("forecast_failed", <<>>, <<>>) }
       /\ last.outcome = "replied"
  /\ CompletionFailed =>
       /\ Len(llm_calls) = 1
       /\ wx_calls = <<>>
       /\ sent = << ErrorReply >>

\* the weather provider failed on the request of a weather utterance
C17_Witness ==
  /\ WeatherFailed
  /\ last.handler = "handle_message"
  /\ sent = << Msg("weather_failed", <<>>, <<>>) >>

Looked == call.op = "district_lookup"

\* C18: a district lookup returns exactly the stored records of that kind
\* whose normalized district equals the normalized query ignoring case, in
\* stored order; when there is none, the reply says that nothing was found
\* and lists the distinct known districts of that kind in sorted order.
C18_LookupReturnsDistrictRecords ==
  Looked =>
    LET data_type == call.args[1]
        recs == call.args[2]
        query == normalize_district(call.args[3])
        matches == SelectSeq(recs, LAMBDA r :
                     LowerAll(normalize_district(r.district)) = LowerAll(query))
        reply == call.result
    IN  IF matches # <<>>
        THEN /\ reply.tmpl = data_type
             /\ reply.text = query
             /\ reply.list = Names(matches)
        ELSE /\ reply.tmpl = "nothing_found"
             /\ reply.text = query
             /\ Range(reply.list) = {recs[i].district : i \in 1..Len(recs)}
             /\ \A i \in 1..Len(reply.list) : \A j \in (i + 1)..Len(reply.list) :
                  KeyLess(reply.list[i], reply.list[j])

\* two records of the district are returned and a record of another
\* district, stored between them, is not
C18_Witness ==
  /\ Looked
  /\ Len(call.args[2]) = 3
  /\ call.args[2][1].district = call.args[2][3].district
  /\ call.args[2][2].district # call.args[2][1].district
  /\ call.args[2][1].name # call.args[2][3].name
  /\ call.result.list = <<call.args[2][1].name, call.args[2][3].name>>

\* ---- the weather operation (SpecFn) ----

WeatherHandled == call.op = "weather_branch"

\* the three phrases the claim lists, anywhere in the utterance
HasForecastPhrase(text) ==
  \/ \E i \in 1..Len(text) : Lower(text[i]) = "prognoz"
  \/ \E i \in 1..(Len(text) - 2) :
       /\ Lower(text[i]) = "na"
       /\ Lower(text[i + 1]) \in {"3", "tri"}
       /\ Lower(text[i + 2]) = "dnya"

\* C21: for an utterance handled as weather exactly one weather operation is
\* invoked: the forecast with days = 3 when the utterance contains a forecast
\* trigger ("na 3 dnya", "na tri dnya" or "prognoz"), the current-conditions
\* operation otherwise.
C21_OneWeatherOperation ==
  WeatherHandled =>
    /\ Len(call.result.ops) = 1
    /\ IF HasForecastPhrase(call.args[1])
       THEN call.result.ops[1].op = "get_weather_forecast" /\ call.result.ops[1].days = 3
       ELSE call.result.ops[1].op = "get_weather"

\* a current-weather question followed by "na Tri dnya" asks for the forecast
C21_Witness ==
  /\ WeatherHandled
  /\ call.args[1] = <<"pogoda", "v", "moskve", "na", "Tri", "dnya">>
  /\ call.result.ops = << [op |-> "get_weather_forecast", city |-> "Moskve", days |-> 3] >>

\* ---- the window sent to the completion provider (SpecMem) ----

TurnsWithRole(messages, role) ==
  {i \in 2..Len(messages) : messages[i].role = role}

\* C22: whenever the user's window holds at least 4 turns when the completion
\* provider is called, the 4 turns sent are two question/answer pairs: exactly
\* two user turns and two assistant turns.
C22_ShortWindowIsTwoPairs ==
  \A k \in 1..Len(llm_calls) :
     Len(llm_calls[k]) = 1 + ShortHistoryLen =>
       /\ Cardinality(TurnsWithRole(llm_calls[k], "user")) = 2
       /\ Cardinality(TurnsWithRole(llm_calls[k], "assistant")) = 2

\* ---- the records collected for a free-text question (SpecFn) ----

Collected == call.op = "relevant_data"

\* the districts of the knowledge base that the utterance names
KnownDistrictsIn(data, text) ==
  {d \in {data.sights[i].district : i \in 1..Len(data.sights)}
           \cup {data.restaurants[i].district : i \in 1..Len(data.restaurants)} :
     Contains(LowerAll(text), LowerAll(d))}

OfDistricts(recs, D) == SelectSeq(recs, LAMBDA r : r.district \in D)

\* the same records, each as many times as it is stored
SameRecords(got, stored) ==
  /\ Len(got) = Len(stored)
  /\ Range(got) = Range(stored)

\* C23: when a free-text lookup mentions several known districts, the records
\* collected are the union over those districts, for any knowledge base: every
\* place and every eatery of each mentioned district is included and no record
\* is included more than once.
C23_CollectedIsUnion ==
  Collected =>
    LET data == call.args[1]
        D == KnownDistrictsIn(data, call.args[2])
        got == IF call.result = <<>> THEN [sights |-> <<>>, restaurants |-> <<>>]
               ELSE call.result[1]
    IN  Cardinality(D) >= 2 =>
          /\ SameRecords(got.sights, OfDistricts(data.sights, D))
          /\ SameRecords(got.restaurants, OfDistricts(data.restaurants, D))

\* ---- optional fields after adaptation (SpecLoad) ----

Present(x) == x.t # "absent"

\* C24: after adaptation under either schema version, every place of the
\* normalized model has opening hours, price and transport present, and every
\* eatery has opening hours, price level, address, transport and tags present.
C24_OptionalFieldsPresent ==
  Loaded =>
    /\ \A i \in 1..Len(ISTANBUL_DATA.sights) :
         LET s == ISTANBUL_DATA.sights[i]
         IN  Present(s.opening_hours) /\ Present(s.price) /\ Present(s.transport)
    /\ \A i \in 1..Len(ISTANBUL_DATA.restaurants) :
         LET r == ISTANBUL_DATA.restaurants[i]
         IN  /\ Present(r.opening_hours)
             /\ Present(r.price_level)
             /\ Present(r.address)
             /\ Present(r.transport)
             /\ Present(r.tags)

\* ---- the loading policy (SpecLoad) ----

\* the normalized model of one document, empty when its validation raises
ModelOf(doc, is_v2) ==
  LET r == validate_and_normalize_data(doc, is_v2)
  IN  IF r.raised THEN EmptyData ELSE r.value.normalized

\* a model with places or eateries is kept whole, any other is unavailable
KeptOrUnavailable(m) ==
  IF m.sights = <<>> /\ m.restaurants = <<>> THEN EmptyData ELSE m

\* C25: loading uses the newer-schema source whenever it is present and the
\* older-schema source only when the newer one is absent; if neither is
\* present, or the loaded model has no place and no eatery after validation,
\* the knowledge base ends empty, routes included.
C25_NewerSourcePreferred ==
  Loaded =>
    LET files == call.args
    IN  /\ files.v2 # <<>> =>
             /\ call.result.source = "v2"
             /\ ISTANBUL_DATA = KeptOrUnavailable(ModelOf(files.v2[1], TRUE))
        /\ files.v2 = <<>> /\ files.legacy # <<>> =>
             /\ call.result.source = "legacy"
             /\ ISTANBUL_DATA = KeptOrUnavailable(ModelOf(files.legacy[1], FALSE))
        /\ files.v2 = <<>> /\ files.legacy = <<>> => ISTANBUL_DATA = EmptyData
        /\ ISTANBUL_DATA.sights = <<>> /\ ISTANBUL_DATA.restaurants = <<>> =>
             ISTANBUL_DATA.routes = <<>>

\* both files exist, the newer one yields no record and the older one would
\* have yielded a place: the knowledge base is empty
C25_Witness ==
  /\ Loaded
  /\ call.args.v2 # <<>>
  /\ call.args.legacy # <<>>
  /\ ~call.result.raised
  /\ ModelOf(call.args.legacy[1], FALSE).sights # <<>>
  /\ ISTANBUL_DATA = EmptyData

\* ---- ids that resolve to no record (SpecLoad) ----

IdsOf(records) == {KeyOf(Get(r, "id", None)) : r \in Range(records)}

RecordOf(records, id) == CHOOSE r \in Range(records) : KeyOf(Get(r, "id", None)) = id

\* the ids of a step that name a record of the document, in the step's order
Resolved(ids, records) == SelectSeq(ids, LAMBDA id : id \in IdsOf(records))

OfKind(activities, kind) == SelectSeq(activities, LAMBDA a : a.kind = kind)

\* the items of an optional list of a step
Items(step, key) == Get(step, key, List(<<>>)).items

\* the activities of an adapted step are those of its resolved ids and its notes
StepKeepsResolved(step, activities, data) ==
  LET stops == Resolved(Items(step, "stop_ids"), data.places)
      eats == Resolved(Items(step, "food_ids"), data.food)
  IN  /\ [i \in 1..Len(OfKind(activities, "visit")) |-> OfKind(activities, "visit")[i].name]
           = [i \in 1..Len(stops) |->
                Text(Get(RecordOf(data.places, stops[i]), "name_ru",
                         Get(RecordOf(data.places, stops[i]), "name", Str(<<stops[i]>>))))]
      /\ [i \in 1..Len(OfKind(activities, "eat")) |-> OfKind(activities, "eat")[i].name]
           = [i \in 1..Len(eats) |->
                Text(Get(RecordOf(data.food, eats[i]), "name", Str(<<eats[i]>>)))]
      /\ [i \in 1..Len(OfKind(activities, "note")) |-> OfKind(activities, "note")[i].name]
           = [i \in 1..Len(Items(step, "notes")) |-> <<Items(step, "notes")[i]>>]

\* a step with a resolved id or a note
StepHasActivity(step, data) ==
  \/ Resolved(Items(step, "stop_ids"), data.places) # <<>>
  \/ Resolved(Items(step, "food_ids"), data.food) # <<>>
  \/ Items(step, "notes") # <<>>

\* C26: in the newer schema a place or eatery id of a route step that resolves
\* to no record is omitted from the step's activities without error: the
\* step's other activities and the route's other steps are still produced and
\* no adapted activity refers to an id that did not resolve.
C26_UnresolvedIdOmitted ==
  (Validated_From("v2") /\ ISTANBUL_DATA # EmptyData) =>
    LET data == call.args.v2[1]
        templates == SelectSeq(data.route_templates, LAMBDA r : ~MalformedRoute(r))
    IN  /\ Len(ISTANBUL_DATA.routes) =
             Len(SelectSeq(templates, LAMBDA r :
                   \E k \in 1..Len(r.fields.steps.items) :
                      StepHasActivity(r.fields.steps.items[k], data)))
        /\ \A t \in 1..Len(templates) :
             LET kept == SelectSeq(templates[t].fields.steps.items,
                                   LAMBDA step : StepHasActivity(step, data))
             IN  /\ Diag("route_adaptation", templates[t].fields.id)
                      \notin Range(call.result.errors)
                 /\ kept # <<>> =>
                      /\ Len(ISTANBUL_DATA.routes[t].steps) = Len(kept)
                      /\ \A j \in 1..Len(kept) :
                           StepKeepsResolved(kept[j],
                                             ISTANBUL_DATA.routes[t].steps[j].activities,
                                             data)

\* the route names two places and three eateries, the file holds one of the
\* places: its morning keeps that place and the note, its evening is empty
C26_Witness ==
  /\ Validated_From("v2")
  /\ Len(call.args.v2[1].places) = 1
  /\ call.args.v2[1].food = <<>>
  /\ Len(ISTANBUL_DATA.routes) = 1
  /\ Len(ISTANBUL_DATA.routes[1].steps) = 1
  /\ ISTANBUL_DATA.routes[1].steps[1].activities =
       << Activity("visit", <<"Bashnya">>, <<>>), Activity("note", <<"bilet">>, <<>>) >>

\* ---- the knowledge base after load (Spec) ----

\* C27: after load no handler (command, button, free-text message) modifies
\* the knowledge base: its places, eateries and routes are the same after any
\* sequence of handled updates.
C27_KnowledgeBaseReadOnly ==
  [][ISTANBUL_DATA' = ISTANBUL_DATA]_vars

\* a district lookup and then a free-text question about that district were
\* answered from the loaded base
C27_Witness ==
  /\ ops = 2
  /\ ISTANBUL_DATA = GuideData
  /\ last.handler = "handle_message"
  /\ last.intent = "knowledge_lookup"
  /\ \E u \in Users : Len(appended[u]) = 1

\* ---- the window after an utterance without a recorded answer (SpecMem) ----

WithoutAnswer(u) ==
  /\ u.branch = "completion"
  /\ u.outcome \in {"failed", "suppressed"}

\* h2 is h with one turn appended to a window that keeps the newest
\* HistoryMaxLen turns
GrownBy(h, h2, turn) ==
  /\ h2 # <<>>
  /\ h2[Len(h2)] = turn
  /\ Len(h2) = IF Len(h) < HistoryMaxLen THEN Len(h) + 1 ELSE HistoryMaxLen
  /\ \A i \in 1..(Len(h2) - 1) : h2[i] = h[Len(h) - (Len(h2) - 1) + i]

\* C28: when an open-ended answer is suppressed as a duplicate, or the
\* completion provider fails, the window is not rolled back: it is the window
\* before the utterance with the user turn appended and no assistant turn, so
\* the window can hold consecutive user turns.
C28_WindowNotRolledBack ==
  [][WithoutAnswer(last') =>
       GrownBy(HistoryOf(user_histories, last'.user),
               HistoryOf(user_histories', last'.user),
               UserTurn(last'.text))]_vars

\* an answer, a failed call and then a suppressed duplicate: the window ends
\* with two user turns in a row
C28_Witness ==
  /\ last.branch = "completion"
  /\ last.outcome = "suppressed"
  /\ LET h == HistoryOf(user_histories, last.user)
     IN  /\ Len(h) = 4
         /\ h[1].role = "user"
         /\ h[2].role = "assistant"
         /\ h[3].role = "user"
         /\ h[4].role = "user"

\* ---- concurrent handling of open-ended utterances (SpecTasks) ----

\* the step appends an assistant turn to the window of user u
AssistantAppended(u) ==
  LET h2 == HistoryOf(user_histories', u)
  IN  /\ h2 # HistoryOf(user_histories, u)
      /\ h2 # <<>>
      /\ h2[Len(h2)].role = "assistant"

\* C29: under any interleaving of handlers, two in-flight utterances of one
\* user included, every assistant turn is appended while the user turn it
\* answers is the most recent turn of that user's window: in the window it
\* directly follows the user turn of the task that appended it.
C29_AnswerFollowsItsQuestion ==
  [][\A u \in Users :
       AssistantAppended(u) =>
         \E t \in Tasks :
            LET h2 == HistoryOf(user_histories', u)
            IN  /\ in_flight[t].pc = "idle"
                /\ in_flight'[t].pc # "idle"
                /\ in_flight'[t].user = u
                /\ Len(h2) >= 2
                /\ h2[Len(h2) - 1] = UserTurn(in_flight'[t].text)]_vars

\* two utterances of one user in flight at once: the first handler is still
\* suspended in reply_text when the second one has appended both its turns
C29_Witness ==
  /\ in_flight["t1"].pc = "reply"
  /\ in_flight["t2"].pc = "reply"
  /\ in_flight["t1"].user = in_flight["t2"].user
  /\ in_flight["t1"].text = <<"privet">>
  /\ in_flight["t2"].text = <<"merhaba">>
  /\ LET h == HistoryOf(user_histories, in_flight["t1"].user)
     IN  /\ Len(h) = 4
         /\ h[1] = UserTurn(<<"privet">>)
         /\ h[2].role = "assistant"
         /\ h[3] = UserTurn(<<"merhaba">>)
         /\ h[4].role = "assistant"

\* ---- the messages sent for a free-text update (Spec) ----

\* C30: every handled text utterance ends with at least one message sent to
\* the user, except when the repetition guard suppresses a duplicate answer:
\* suppression is the only path of handle_message that sends nothing.
C30_SilentOnlyWhenSuppressed ==
  last.handler = "handle_message" =>
    (sent = <<>> <=> last.outcome = "suppressed")

\* an empty completion refused by the chat service: the only message of the
\* update is the error reply
C30_Witness ==
  /\ last.handler = "handle_message"
  /\ last.branch = "completion"
  /\ last.completion = << <<>> >>
  /\ last.outcome = "send_failed"
  /\ sent = << ErrorReply >>

====
